---- MODULE Spec2Model ----
(***************************************************************************)
(* Enterprise AI Gateway: provider router and per-provider circuit breaker *)
(* (providers/router.py).  Several route_request calls run concurrently;   *)
(* a call is suspended only while adapter.complete is in flight, breaker   *)
(* operations are executed without interruption.                           *)
(*                                                                         *)
(* Per-team budget store (budget_manager.py).  Every operation of the      *)
(* store runs under the store's lock; record_usage is followed statement   *)
(* by statement, each "x = x.get(..) + c" as a read and a later write.     *)
(* BudgetSpec is the specification of the store, Spec that of the router.  *)
(*                                                                         *)
(* RaceSpec follows the breaker's methods one read or write at a time for  *)
(* calls served by threads, RecoverySpec is Spec with the time of the last *)
(* failure of each provider, ListingSpec adds all_teams to the store, and  *)
(* CostSpec and GeminiSpec apply estimate_cost and the token estimate of   *)
(* the Gemini adapter to their inputs.                                     *)
(***************************************************************************)
EXTENDS Integers, Sequences, FiniteSets, TLC

\* ------------------------------------------------------------------ bounds
\* largest value of the wall clock, in seconds
MaxClock == 61
\* amounts of time that can pass between two steps: exactly COOLDOWN_SECONDS
\* (the last moment of the cooldown) and one second more (cooldown elapsed)
TickSteps == {60, 61}
\* concurrent route_request calls
Tasks == {"t1", "t2", "t3"}
\* messages of the exceptions the adapter of provider p can raise
AdapterErrors(p) == { <<p, " API error">> }

\* requests that reach the budget check in one run
MaxRequests == 3
\* requests that one run of the whole pipeline serves
MaxPipelineRequests == 2
\* the teams that send requests
Teams == {"eng", "ops"}

\* --------------------------------------------------------------- constants
Provider == {"anthropic", "openai", "azure_openai", "gemini"}
PROVIDER_REGISTRY == Provider
FAILURE_THRESHOLD == 3
COOLDOWN_SECONDS == 60
\* Python's None for a datetime (tripped_at) and for a provider (first_tried,
\* preferred_provider)
NoTime == -1
NoProvider == "None"
\* Python's None for fallback_reason
NoReason == <<>>
NotConfigured == <<"Not configured (missing API key)">>
CircuitOpen == <<"Circuit breaker open (too many recent failures)">>
UnknownError == <<"unknown error">>
\* the deployments examined: settings.provider_priority, the set of providers
\* whose API key is configured, and the server's worker threads
Deployments ==
    { [ priority  |-> <<"anthropic", "openai", "azure_openai", "gemini">>,
        available |-> {"anthropic", "openai", "azure_openai", "gemini"},
        workers   |-> {"t1"} ],
      [ priority  |-> <<"anthropic", "openai", "azure_openai">>,
        available |-> {"openai", "azure_openai"},
        workers   |-> {"t1"} ],
      [ priority  |-> <<"anthropic", "openai">>,
        available |-> {"anthropic", "openai", "gemini"},
        workers   |-> {"t1"} ],
      [ priority  |-> <<"anthropic", "openai">>,
        available |-> {"anthropic"},
        workers   |-> {"t1", "t2"} ],
      [ priority  |-> <<"anthropic", "openai", "azure_openai", "gemini">>,
        available |-> {},
        workers   |-> {"t1", "t2"} ] }
\* preferred_provider values used by callers
PreferredChoices == {NoProvider, "openai", "gemini"}

\* Money is counted in thirds of a millionth of a dollar: get_budget rounds to
\* 6 decimal places, and a third is never half-way between two such values.
MicroUSD == 3
USD == 1000000 * MicroUSD
\* settings.default_team_daily_budget_usd, settings.default_team_monthly_budget_usd
DefaultDailyLimit == 10 * USD
DefaultMonthlyLimit == 200 * USD
\* the days the store lives through: date.today() with its isoformat() and
\* its strftime("%Y-%m")
Calendar == << [ today |-> "2026-01-30", month |-> "2026-01" ],
               [ today |-> "2026-01-31", month |-> "2026-01" ],
               [ today |-> "2026-02-01", month |-> "2026-02" ] >>
\* estimated and actual costs of a request: a third of a millionth of a dollar
\* and a whole millionth
Costs == {1, MicroUSD}
\* the limits an administrator sets: 10 and 100 dollars, and limits of a few
\* millionths of a dollar that the costs above can exhaust
LimitChoices == { [ daily_limit_usd |-> 10 * USD, monthly_limit_usd |-> 100 * USD ],
                  [ daily_limit_usd |-> 5, monthly_limit_usd |-> 2 * MicroUSD ] }
\* the deployments of the budget store examined: the server's worker threads,
\* the teams that send requests and have limits set (get_budget is called for
\* every team), whether set_team_budget is still called once the first
\* request has arrived, and the last day of the calendar the server runs on
BudgetDeployments ==
    { [ workers |-> {"t1"}, teams |-> {"eng"}, reconfigure |-> TRUE,
        last_day |-> Len(Calendar) ],
      [ workers |-> {"t1", "t2", "t3"}, teams |-> {"eng"}, reconfigure |-> FALSE,
        last_day |-> Len(Calendar) - 1 ] }
\* no task (the lock is free)
NoTask == "None"
\* no team
NoTeam == "None"

VARIABLES
    clock,             \* datetime.utcnow(), seconds
    provider_priority, \* settings.provider_priority
    available,         \* providers whose adapter.is_available() is true
    workers,           \* the tasks that serve requests
    failures,          \* circuit_breaker._failures
    tripped_at,        \* circuit_breaker._tripped_at
    half_open,         \* providers reset by is_open with no attempt result since
    opened_at,         \* when the breaker of a provider last went from closed to
                       \* open, for the COOLDOWN_SECONDS that follow that moment
    pc,                \* position of each route_request call
    priority,          \* local: traversal order
    idx,               \* local: position of the for loop in priority
    provider_errors,   \* local: dict provider -> reason
    fallback_triggered,
    fallback_reason,
    first_tried,
    attempted,         \* providers on which adapter.complete was called, in order
    result             \* what the call returned or raised

VARIABLES
    teams,             \* the teams that send requests
    reconfigure,       \* limits are still set after the first request
    last_day,          \* the last day the server runs on, a position in Calendar
    date_today,        \* date.today(), as a position in Calendar
    lock,              \* InMemoryBudgetStore._lock: the task holding it
    budgets,           \* InMemoryBudgetStore._budgets
    daily_usage,       \* InMemoryBudgetStore._daily_usage
    monthly_usage,     \* InMemoryBudgetStore._monthly_usage
    bpc,               \* position of each task in its budget-store work
    req,               \* locals of the request / of the record_usage call of a task
    ret,               \* what the get_budget / check_budget call of the step just
                       \* taken returned
    nreq,              \* requests that reached the budget check so far
    committed          \* of the record_usage calls that have returned, per team
                       \* and date: cost and number of those that read the date
                       \* for their day key, mcost of those that read it for
                       \* their month key

router == << clock, provider_priority, available, failures, tripped_at, half_open,
             opened_at, pc, priority, idx, provider_errors, fallback_triggered,
             fallback_reason, first_tried, attempted, result >>
store == << budgets, daily_usage, monthly_usage >>
budget == << teams, reconfigure, last_day, date_today, lock, store, bpc, req, ret, nreq,
            committed >>

VARIABLES
    siem_url,          \* settings.siem_webhook_url is set
    log_exists,        \* the audit file exists
    log_text,          \* the text of the audit file
    preexisting,       \* the text the audit file held when the logger was built
    logged,            \* the entries passed to AuditLogger.log, in call order
    shipping,          \* the _ship_to_siem tasks created, in creation order
    aret,              \* how the AuditLogger call of the step just taken ended
    nlog               \* AuditLogger.log calls so far

VARIABLES
    auth_in,           \* X-API-Key header values of the requests still to come
    auth_out           \* how require_api_key ended for the requests so far

audit == << siem_url, log_exists, log_text, preexisting, logged, shipping, aret, nlog >>
VARIABLES
    pii_enabled,       \* settings.pii_redaction_enabled
    pii_text,          \* the text passed to the redact call made last, or to be
                       \* passed to the first one
    pii_out,           \* the RedactionResult of the redact call made last
    pii_calls          \* redact calls so far

VARIABLES
    ppc,               \* the stage each task is at in the request it serves
    ctx,               \* locals of the request a task serves
    trace,             \* per request, in arrival order: the calls made for it
                       \* and how they ended, in the order they happened
    content,           \* per request: the bodies of its prompt as received and
                       \* as sent to the providers, and of its completion
    narrived           \* requests that passed authentication so far

VARIABLES
    est_in,            \* the arguments of the estimate_cost call
    est_out,           \* what the estimate_cost call returned
    gem_in,            \* the messages passed to GeminiAdapter.complete and the
                       \* text of the vendor's response
    gem_out,           \* the token counts of the AdapterResponse returned
    rpc,               \* the statement of the breaker each thread is at
    rloc,              \* locals of the breaker call of each thread: the value
                       \* it has read and the time it read the clock at
    recorded,          \* per provider: the failures recorded since the counter
                       \* was last set to 0, and the route_request calls made
    failed_at,         \* per provider: when record_failure was last called
    all_ids,           \* all_teams: the team ids still to be looked up
    views              \* all_teams: the list returned, once it has returned

authn == << auth_in, auth_out >>
pii == << pii_enabled, pii_text, pii_out, pii_calls >>
pipeline == << ppc, ctx, trace, content, narrived >>
estimator == << est_in, est_out >>
gemini == << gem_in, gem_out >>
race == << rpc, rloc, recorded >>
listing == << all_ids, views >>
\* the parts that are examined on their own
components == << estimator, gemini, race, failed_at, listing >>
gateway == << audit, authn, pii, pipeline, components >>

vars == << workers, router, budget, gateway >>

breaker == << failures, tripped_at, half_open, opened_at >>
locals == << priority, idx, provider_errors, fallback_triggered,
             fallback_reason, first_tried, attempted >>
config == << provider_priority, available, workers >>

\* ------------------------------------------------------- pure definitions
\* variant: the assignment replaces the dict by one with the single key k
DictSet_replace(d, k, v) == [q \in {k} |-> v]

\* dict assignment d[k] = v
DictSet(d, k, v) == [q \in (DOMAIN d) \cup {k} |-> IF q = k THEN v ELSE d[q]]

\* dict.get(k, default)
DictGet(d, k, default) == IF k \in DOMAIN d THEN d[k] ELSE default

EmptyDict == [q \in {} |-> <<>>]

\* variant: the preferred provider is not removed from the rest of the list
BuildPriority_keep_duplicate(names, preferred) ==
    LET InRegistry(p) == p \in PROVIDER_REGISTRY
        base == SelectSeq(names, InRegistry)
    IN  IF preferred # NoProvider
        THEN <<preferred>> \o base
        ELSE base

\* the traversal order built at the start of route_request
BuildPriority(names, preferred) ==
    LET InRegistry(p) == p \in PROVIDER_REGISTRY
        NotPreferred(p) == p # preferred
        base == SelectSeq(names, InRegistry)
    IN  IF preferred # NoProvider
        THEN <<preferred>> \o SelectSeq(base, NotPreferred)
        ELSE base

\* f"Fell back from {first_tried.value}: {provider_errors.get(...)}"
FallbackReason(first, errors) ==
    << "Fell back from ", first, ": ", DictGet(errors, first, UnknownError) >>

\* variant: every provider after the first of the list counts as a fallback
IsFallback_past_first_position(first, i, errors) == i > 1

\* variant: a recorded skip counts as a fallback too
IsFallback_any_error(first, i, errors) == first # NoProvider \/ DOMAIN errors # {}

\* "if first_tried is not None": this attempt is a fallback
IsFallback(first, i, errors) == first # NoProvider

\* variant: first_tried is overwritten by every attempt
NextFirstTried_overwrite(first, p) == p

\* "if first_tried is None: first_tried = provider"
NextFirstTried(first, p) == IF first = NoProvider THEN p ELSE first

\* variant: the timestamp is cleared but the counter is kept
record_success_keep_counter(f, tr, p) ==
    [ failures   |-> f,
      tripped_at |-> [tr EXCEPT ![p] = NoTime] ]

\* variant: the state of every provider is reset
record_success_reset_all(f, tr, p) ==
    [ failures   |-> [q \in DOMAIN f |-> 0],
      tripped_at |-> [q \in DOMAIN tr |-> NoTime] ]

\* ProviderCircuitBreaker.record_success: the breaker state of p afterwards
record_success(f, tr, p) ==
    [ failures   |-> [f EXCEPT ![p] = 0],
      tripped_at |-> [tr EXCEPT ![p] = NoTime] ]

\* variant: the breaker trips one failure late
record_failure_late(f, tr, p, now) ==
    LET n == f[p] + 1
    IN  [ failures   |-> [f EXCEPT ![p] = n],
          tripped_at |-> IF n > FAILURE_THRESHOLD
                         THEN [tr EXCEPT ![p] = now]
                         ELSE tr ]

\* ProviderCircuitBreaker.record_failure at time now
record_failure(f, tr, p, now) ==
    LET n == f[p] + 1
    IN  [ failures   |-> [f EXCEPT ![p] = n],
          tripped_at |-> IF n >= FAILURE_THRESHOLD
                         THEN [tr EXCEPT ![p] = now]
                         ELSE tr ]

\* variant: the cooldown ends one second early
is_open_early(f, tr, p, now) ==
    IF tr[p] = NoTime
    THEN [ ret |-> FALSE, failures |-> f, tripped_at |-> tr, reset |-> FALSE ]
    ELSE IF now - tr[p] >= COOLDOWN_SECONDS
         THEN [ ret        |-> FALSE,
                failures   |-> [f EXCEPT ![p] = 0],
                tripped_at |-> [tr EXCEPT ![p] = NoTime],
                reset      |-> TRUE ]
         ELSE [ ret |-> TRUE, failures |-> f, tripped_at |-> tr, reset |-> FALSE ]

\* variant: the reset after the cooldown keeps the failure counter
is_open_keep_counter(f, tr, p, now) ==
    IF tr[p] = NoTime
    THEN [ ret |-> FALSE, failures |-> f, tripped_at |-> tr, reset |-> FALSE ]
    ELSE IF now - tr[p] > COOLDOWN_SECONDS
         THEN [ ret        |-> FALSE,
                failures   |-> f,
                tripped_at |-> [tr EXCEPT ![p] = NoTime],
                reset      |-> TRUE ]
         ELSE [ ret |-> TRUE, failures |-> f, tripped_at |-> tr, reset |-> FALSE ]

\* variant: the reset after the cooldown clears the counter and keeps the
\* timestamp
is_open_keep_timestamp(f, tr, p, now) ==
    IF tr[p] = NoTime
    THEN [ ret |-> FALSE, failures |-> f, tripped_at |-> tr, reset |-> FALSE ]
    ELSE IF now - tr[p] > COOLDOWN_SECONDS
         THEN [ ret        |-> FALSE,
                failures   |-> [f EXCEPT ![p] = 0],
                tripped_at |-> tr,
                reset      |-> TRUE ]
         ELSE [ ret |-> TRUE, failures |-> f, tripped_at |-> tr, reset |-> FALSE ]

\* variant: the cooldown ends one second late
is_open_late(f, tr, p, now) ==
    IF tr[p] = NoTime
    THEN [ ret |-> FALSE, failures |-> f, tripped_at |-> tr, reset |-> FALSE ]
    ELSE IF now - tr[p] > COOLDOWN_SECONDS + 1
         THEN [ ret        |-> FALSE,
                failures   |-> [f EXCEPT ![p] = 0],
                tripped_at |-> [tr EXCEPT ![p] = NoTime],
                reset      |-> TRUE ]
         ELSE [ ret |-> TRUE, failures |-> f, tripped_at |-> tr, reset |-> FALSE ]

\* variant: an open breaker is never reported
is_open_never(f, tr, p, now) ==
    [ ret |-> FALSE, failures |-> f, tripped_at |-> tr, reset |-> FALSE ]

\* ProviderCircuitBreaker.is_open at time now: the value returned, the
\* breaker state afterwards and whether the call reset the breaker
is_open(f, tr, p, now) ==
    IF tr[p] = NoTime
    THEN [ ret |-> FALSE, failures |-> f, tripped_at |-> tr, reset |-> FALSE ]
    ELSE IF now - tr[p] > COOLDOWN_SECONDS
         THEN [ ret        |-> FALSE,
                failures   |-> [f EXCEPT ![p] = 0],
                tripped_at |-> [tr EXCEPT ![p] = NoTime],
                reset      |-> TRUE ]
         ELSE [ ret |-> TRUE, failures |-> f, tripped_at |-> tr, reset |-> FALSE ]

\* ------------------------------------------------------------ budget store
\* date.today().isoformat() and date.today().strftime("%Y-%m")
isoformat(d) == Calendar[d].today
strftime(d) == Calendar[d].month

\* keys of the dicts of _daily_usage: today and f"{today}_count"
DayKey(today) == << today >>
CountKey(today) == << today, "_count" >>
MonthKey(month) == << month >>

\* round(x, 6) of an amount x >= 0: the nearest whole number of millionths
round6(x) == ((2 * x + MicroUSD) \div (2 * MicroUSD)) * MicroUSD

\* max(0, x)
Max0(x) == IF x > 0 THEN x ELSE 0

\* the TeamBudget that get_budget builds from the store (limits b, daily
\* usage du, monthly usage mu); d is the date of its first date.today() call
\* and dm the date of its second one
get_budget(b, du, mu, team_id, d, dm) ==
    LET today == isoformat(d)
        month == strftime(dm)
        cfg == DictGet(b, team_id, [ daily_limit_usd |-> DefaultDailyLimit,
                                     monthly_limit_usd |-> DefaultMonthlyLimit ])
        daily_used == DictGet(DictGet(du, team_id, EmptyDict), DayKey(today), 0)
        monthly_used == DictGet(DictGet(mu, team_id, EmptyDict), MonthKey(month), 0)
        daily_requests == DictGet(DictGet(du, team_id, EmptyDict), CountKey(today), 0)
    IN  [ team_id |-> team_id,
          daily_limit_usd |-> cfg.daily_limit_usd,
          monthly_limit_usd |-> cfg.monthly_limit_usd,
          daily_used_usd |-> round6(daily_used),
          monthly_used_usd |-> round6(monthly_used),
          daily_remaining_usd |-> round6(Max0(cfg.daily_limit_usd - daily_used)),
          monthly_remaining_usd |-> round6(Max0(cfg.monthly_limit_usd - monthly_used)),
          request_count_today |-> daily_requests ]

DailyExceeded(team_id) == << "Daily budget exceeded for team ", team_id >>
MonthlyExceeded(team_id) == << "Monthly budget exceeded for team ", team_id >>
\* the empty reason ""
EmptyReason == << >>

\* check_budget, from the TeamBudget b that its get_budget call returned
check_budget(b, team_id, estimated_cost) ==
    IF estimated_cost > b.daily_remaining_usd
    THEN [ allowed |-> FALSE, reason |-> DailyExceeded(team_id) ]
    ELSE IF estimated_cost > b.monthly_remaining_usd
    THEN [ allowed |-> FALSE, reason |-> MonthlyExceeded(team_id) ]
    ELSE [ allowed |-> TRUE, reason |-> EmptyReason ]

\* variant: the two limits are stored under each other's key
set_team_budget_swapped(b, team_id, daily_usd, monthly_usd) ==
    DictSet(b, team_id, [ daily_limit_usd |-> monthly_usd, monthly_limit_usd |-> daily_usd ])

\* _budgets after set_team_budget(team_id, daily_usd, monthly_usd)
set_team_budget(b, team_id, daily_usd, monthly_usd) ==
    DictSet(b, team_id, [ daily_limit_usd |-> daily_usd, monthly_limit_usd |-> monthly_usd ])

\* variant: the lock is not waited for
Acquirable_unlocked(l) == TRUE

\* "with self._lock": the block is entered only while no task holds the lock
Acquirable(l) == l = NoTask

\* variant: the lookup stores an empty dict for a missing key (setdefault)
AfterGet_setdefault(d, k) == IF k \in DOMAIN d THEN d ELSE DictSet(d, k, EmptyDict)

\* the dict d after d.get(k, default): d itself, no entry is created for k
AfterGet(d, k) == d

\* variant: the team's dict is created anew by every call
EnsureTeam_reset(d, team_id) == DictSet(d, team_id, EmptyDict)

\* "if team_id not in d: d[team_id] = {}"
EnsureTeam(d, team_id) == IF team_id \in DOMAIN d THEN d ELSE DictSet(d, team_id, EmptyDict)

\* d[team_id][k] = v
DictSet2(d, team_id, k, v) == DictSet(d, team_id, DictSet(d[team_id], k, v))

\* variant: the request counter of the day is left as it is
record_usage_uncounted(du, mu, team_id, actual_cost, d, dm) ==
    LET today == isoformat(d)
        month == strftime(dm)
        du1 == EnsureTeam(du, team_id)
        mu1 == EnsureTeam(mu, team_id)
        du2 == DictSet2(du1, team_id, DayKey(today),
                        DictGet(du1[team_id], DayKey(today), 0) + actual_cost)
        mu2 == DictSet2(mu1, team_id, MonthKey(month),
                        DictGet(mu1[team_id], MonthKey(month), 0) + actual_cost)
    IN  [ daily_usage |-> du2, monthly_usage |-> mu2 ]

\* _daily_usage and _monthly_usage after record_usage(team_id, actual_cost);
\* d is the date of its first date.today() call and dm of its second one
record_usage(du, mu, team_id, actual_cost, d, dm) ==
    LET today == isoformat(d)
        month == strftime(dm)
        du1 == EnsureTeam(du, team_id)
        mu1 == EnsureTeam(mu, team_id)
        du2 == DictSet2(du1, team_id, DayKey(today),
                        DictGet(du1[team_id], DayKey(today), 0) + actual_cost)
        du3 == DictSet2(du2, team_id, CountKey(today),
                        DictGet(du2[team_id], CountKey(today), 0) + 1)
        mu2 == DictSet2(mu1, team_id, MonthKey(month),
                        DictGet(mu1[team_id], MonthKey(month), 0) + actual_cost)
    IN  [ daily_usage |-> du3, monthly_usage |-> mu2 ]

NoBudget == [ team_id |-> NoTeam, daily_limit_usd |-> 0, monthly_limit_usd |-> 0,
              daily_used_usd |-> 0, monthly_used_usd |-> 0,
              daily_remaining_usd |-> 0, monthly_remaining_usd |-> 0,
              request_count_today |-> 0 ]
NoReturn == [ task |-> NoTask, op |-> "none", team_id |-> NoTeam, estimated_cost |-> 0,
              day |-> 0, mday |-> 0,
              budget |-> NoBudget, allowed |-> FALSE, reason |-> EmptyReason ]
NoRequest == [ team_id |-> NoTeam, estimated_cost |-> 0, actual_cost |-> 0,
               today |-> "", month |-> "", day |-> 0, mday |-> 0, read |-> 0 ]

\* the store after construction, with no request under way
BudgetStoreInit ==
    /\ teams = Teams
    /\ reconfigure = TRUE
    /\ last_day = Len(Calendar)
    /\ date_today = 1
    /\ lock = NoTask
    /\ budgets = EmptyDict
    /\ daily_usage = EmptyDict
    /\ monthly_usage = EmptyDict
    /\ bpc = [t \in Tasks |-> "idle"]
    /\ req = [t \in Tasks |-> NoRequest]
    /\ ret = NoReturn
    /\ nreq = 0
    /\ committed = [tm \in Teams |-> [d \in 1..Len(Calendar) |->
                                          [ cost |-> 0, n |-> 0, mcost |-> 0 ]]]

\* ------------------------------------------------------------ audit logger
\* Text is a sequence of characters, one string each; a string that stands
\* for several characters (a key, an id, a status) holds none of the
\* characters below.  The characters "\n", "\\" and '"':
LF == "\n"
BS == "\\"
QUOTE == "\""
\* the characters that str.strip() removes
Whitespace == {LF, " "}

\* Optional[str]: None, and a str value
None == << >>
Some(text) == << text >>

\* AuditEntry.status
EntryStatus == {"success", "error", "budget_exceeded"}
\* AuditEntry.request_id of the n-th request
RequestIds == << "req-1", "req-2", "req-3", "req-4" >>
\* request_id of an entry written before the logger was built
OldRequestId == "req-0"

\* an AuditEntry, by the fields followed here
AuditEntry(request_id, status, reason, error_message) ==
    [ request_id |-> request_id, status |-> status,
      fallback_reason |-> reason, error_message |-> error_message ]
NoEntry == AuditEntry("", "", None, None)

\* JSON text of one character of a str: control characters, the backslash
\* and the quote are written as escape sequences
dumps_char(c) ==
    IF c = LF THEN << BS, "n" >>
    ELSE IF c \in {BS, QUOTE} THEN << BS, c >>
    ELSE << c >>

\* variant: the line feed is written as it is
dumps_str_raw_newline(text) ==
    LET body[i \in 0..Len(text)] ==
            IF i = 0 THEN << >>
            ELSE body[i - 1] \o (IF text[i] = LF THEN << LF >> ELSE dumps_char(text[i]))
    IN  << QUOTE >> \o body[Len(text)] \o << QUOTE >>

\* JSON text of a str
dumps_str(text) ==
    LET body[i \in 0..Len(text)] ==
            IF i = 0 THEN << >> ELSE body[i - 1] \o dumps_char(text[i])
    IN  << QUOTE >> \o body[Len(text)] \o << QUOTE >>

\* entry.model_dump_json(): the JSON object of the entry, on one line
model_dump_json(entry) ==
    << "{", entry.request_id, ",", entry.status, "," >>
    \o (IF entry.fallback_reason = None THEN << "null" >>
        ELSE dumps_str(entry.fallback_reason[1]))
    \o << "," >>
    \o (IF entry.error_message = None THEN << "null" >>
        ELSE dumps_str(entry.error_message[1]))
    \o << "}" >>

\* the str that the body s of a JSON string stands for; not ok when s holds
\* a raw control character or quote, or a backslash that starts no escape
RECURSIVE loads_str(_)
loads_str(s) ==
    IF s = << >> THEN [ ok |-> TRUE, text |-> << >> ]
    ELSE IF Head(s) = BS
    THEN IF Len(s) >= 2 /\ s[2] \in {"n", BS, QUOTE}
         THEN LET r == loads_str(SubSeq(s, 3, Len(s)))
              IN  [ ok |-> r.ok, text |-> << IF s[2] = "n" THEN LF ELSE s[2] >> \o r.text ]
         ELSE [ ok |-> FALSE, text |-> << >> ]
    ELSE IF Head(s) \in {QUOTE, LF}
    THEN [ ok |-> FALSE, text |-> << >> ]
    ELSE LET r == loads_str(Tail(s))
         IN  [ ok |-> r.ok, text |-> << Head(s) >> \o r.text ]

\* str.lstrip(), str.rstrip(), str.strip()
RECURSIVE lstrip(_)
lstrip(s) == IF s # << >> /\ Head(s) \in Whitespace THEN lstrip(Tail(s)) ELSE s
RECURSIVE rstrip(_)
rstrip(s) ==
    IF s # << >> /\ s[Len(s)] \in Whitespace THEN rstrip(SubSeq(s, 1, Len(s) - 1)) ELSE s
strip(s) == rstrip(lstrip(s))

\* s.split(sep): the pieces of s between the occurrences of sep
RECURSIVE split(_, _)
split(s, sep) ==
    IF \E i \in 1..Len(s) : s[i] = sep
    THEN LET i == CHOOSE j \in 1..Len(s) : s[j] = sep /\ \A k \in 1..(j - 1) : s[k] # sep
         IN  << SubSeq(s, 1, i - 1) >> \o split(SubSeq(s, i + 1, Len(s)), sep)
    ELSE << s >>

\* the position of the quote that closes the JSON string opened at position i
\* of s: the first quote after i that no backslash escapes (0 when none)
StrEnd(s, i) ==
    LET esc[j \in i..Len(s)] == IF j = i THEN FALSE ELSE s[j - 1] = BS /\ ~esc[j - 1]
        ends == { j \in (i + 1)..Len(s) : s[j] = QUOTE /\ ~esc[j] }
    IN  IF ends = {} THEN 0 ELSE CHOOSE j \in ends : \A k \in ends : j <= k

\* the last position of the JSON value (null or a string) that starts at
\* position i of s (0 when there is none)
ValueEnd(s, i) ==
    IF i > Len(s) THEN 0
    ELSE IF s[i] = "null" THEN i
    ELSE IF s[i] = QUOTE THEN StrEnd(s, i)
    ELSE 0

\* the Optional[str] that the JSON value at positions i..e of s stands for
OptionalStr(s, i, e) ==
    IF s[i] = "null" THEN [ ok |-> TRUE, value |-> None ]
    ELSE LET r == loads_str(SubSeq(s, i + 1, e - 1))
         IN  [ ok |-> r.ok, value |-> Some(r.text) ]

\* json.loads(line): ok with the entry when the line is the JSON object of an
\* entry, not ok (JSONDecodeError) otherwise
json_loads(line) ==
    LET s == strip(line)
        e1 == ValueEnd(s, 6)
        e2 == ValueEnd(s, e1 + 2)
    IN  IF /\ Len(s) >= 9
           /\ s[1] = "{" /\ s[Len(s)] = "}"
           /\ s[2] \notin {LF, BS, QUOTE, " ", "{", "}", ","}
           /\ s[3] = ","
           /\ s[4] \in EntryStatus
           /\ s[5] = ","
           /\ e1 # 0 /\ e1 + 1 <= Len(s) /\ s[e1 + 1] = ","
           /\ e2 # 0 /\ e2 + 1 = Len(s)
           /\ OptionalStr(s, 6, e1).ok
           /\ OptionalStr(s, e1 + 2, e2).ok
        THEN [ ok |-> TRUE,
               value |-> AuditEntry(s[2], s[4], OptionalStr(s, 6, e1).value,
                                    OptionalStr(s, e1 + 2, e2).value) ]
        ELSE [ ok |-> FALSE, value |-> NoEntry ]

\* [l for l in lines if l.strip()]
RECURSIVE NonBlank(_)
NonBlank(lines) ==
    IF lines = << >> THEN << >>
    ELSE (IF strip(Head(lines)) # << >> THEN << Head(lines) >> ELSE << >>)
         \o NonBlank(Tail(lines))

\* lines[-limit:]: from position len - limit on (from the start when limit is
\* larger than len); -0 is 0, so for limit = 0 from position 0 on
LastLines(lines, limit) ==
    LET start == IF limit = 0 THEN 0
                 ELSE IF Len(lines) > limit THEN Len(lines) - limit ELSE 0
    IN  SubSeq(lines, start + 1, Len(lines))

\* the entries of the lines that parse, in the order of the lines
RECURSIVE Parsed(_)
Parsed(lines) ==
    IF lines = << >> THEN << >>
    ELSE (IF json_loads(Head(lines)).ok THEN << json_loads(Head(lines)).value >> ELSE << >>)
         \o Parsed(Tail(lines))

\* list(reversed(entries))
reversed(entries) == [i \in 1..Len(entries) |-> entries[Len(entries) + 1 - i]]

\* recent_entries(limit) on a file that exists and holds text
recent_entries(text, limit) ==
    reversed(Parsed(LastLines(NonBlank(split(strip(text), LF)), limit)))

\* how the call of the step just taken ended: nothing was called
NoAuditReturn == [ op |-> "none", outcome |-> "none", limit |-> 0, entries |-> << >> ]

\* the logger after construction in a deployment without SIEM and without an
\* audit file
AuditLoggerInit ==
    /\ siem_url = FALSE
    /\ log_exists = FALSE
    /\ log_text = << >>
    /\ preexisting = << >>
    /\ logged = << >>
    /\ shipping = << >>
    /\ aret = NoAuditReturn
    /\ nlog = 0

\* ------------------------------------------------------------ PII redactor
Digit == {"0", "1", "2", "3", "4", "5", "6", "7", "8", "9"}
Lower == {"a", "b", "c", "d", "e", "f", "g", "h", "i", "j", "k", "l", "m",
          "n", "o", "p", "q", "r", "s", "t", "u", "v", "w", "x", "y", "z"}
Upper == {"A", "B", "C", "D", "E", "F", "G", "H", "I", "J", "K", "L", "M",
          "N", "O", "P", "Q", "R", "S", "T", "U", "V", "W", "X", "Y", "Z"}
\* the characters matched by \w and by \s
WordChars == Digit \cup Lower \cup Upper \cup {"_"}
SpaceChars == Whitespace

\* regular expressions: a character class, the word boundary \b, a
\* concatenation, a greedy "?", a greedy "{min,max}" and a greedy "{min,}"
Cls(set) == [ op |-> "class", set |-> set ]
WordBoundary == [ op |-> "b" ]
Cat(parts) == [ op |-> "cat", parts |-> parts ]
Opt(re) == [ op |-> "opt", arg |-> re ]
Rep(re, min, max) == [ op |-> "rep", arg |-> re, min |-> min, max |-> max ]
AtLeast(re, min) == [ op |-> "atleast", arg |-> re, min |-> min ]

\* position i of text s lies between a \w character and a character that is
\* not one (or an end of the text)
AtWordBoundary(s, i) ==
    (i - 1 >= 1 /\ s[i - 1] \in WordChars) # (i <= Len(s) /\ s[i] \in WordChars)

\* the positions at which a match of re that starts at position i of s can
\* end (the position after its last character), in the order in which the
\* backtracking matcher of module re tries them
RECURSIVE Ends(_, _, _)
Ends(re, s, i) ==
    CASE re.op = "class" ->
             IF i <= Len(s) /\ s[i] \in re.set THEN << i + 1 >> ELSE << >>
      [] re.op = "b" ->
             IF AtWordBoundary(s, i) THEN << i >> ELSE << >>
      [] re.op = "cat" ->
             IF re.parts = << >> THEN << i >>
             ELSE LET first == Ends(Head(re.parts), s, i)
                      rest == Cat(Tail(re.parts))
                      all[k \in 0..Len(first)] ==
                          IF k = 0 THEN << >> ELSE all[k - 1] \o Ends(rest, s, first[k])
                  IN  all[Len(first)]
      [] re.op = "opt" ->
             Ends(re.arg, s, i) \o << i >>
      [] re.op = "rep" ->
             LET first == IF re.max > 0 THEN Ends(re.arg, s, i) ELSE << >>
                 rest == Rep(re.arg, Max0(re.min - 1), re.max - 1)
                 all[k \in 0..Len(first)] ==
                     IF k = 0 THEN << >> ELSE all[k - 1] \o Ends(rest, s, first[k])
             IN  all[Len(first)] \o (IF re.min <= 0 THEN << i >> ELSE << >>)
      [] re.op = "atleast" ->
             LET first == Ends(re.arg, s, i)
                 rest == AtLeast(re.arg, Max0(re.min - 1))
                 all[k \in 0..Len(first)] ==
                     IF k = 0 THEN << >> ELSE all[k - 1] \o Ends(rest, s, first[k])
             IN  all[Len(first)] \o (IF re.min <= 0 THEN << i >> ELSE << >>)

\* pattern.findall(s): the number of the matches, found from left to right,
\* each search starting where the match before it ended
RECURSIVE CountFrom(_, _, _)
CountFrom(re, s, i) ==
    IF i > Len(s) THEN 0
    ELSE LET e == Ends(re, s, i)
         IN  IF e # << >> THEN 1 + CountFrom(re, s, Head(e))
             ELSE CountFrom(re, s, i + 1)
findall(re, s) == CountFrom(re, s, 1)

\* pattern.sub(repl, s): s with each of these matches replaced by repl
RECURSIVE SubFrom(_, _, _, _)
SubFrom(re, repl, s, i) ==
    IF i > Len(s) THEN << >>
    ELSE LET e == Ends(re, s, i)
         IN  IF e # << >> THEN repl \o SubFrom(re, repl, s, Head(e))
             ELSE << s[i] >> \o SubFrom(re, repl, s, i + 1)
sub(re, repl, s) == SubFrom(re, repl, s, 1)

\* [\s.\-] and [\s\-]
SepChars == SpaceChars \cup {".", "-"}
DashChars == SpaceChars \cup {"-"}
\* \d{n}
Digits(n) == Rep(Cls(Digit), n, n)

\* self._patterns, in the order of the dict: the entity type, its characters
\* and its pattern
Patterns ==
    << [ entity_type |-> "EMAIL_ADDRESS",
         chars |-> << "E", "M", "A", "I", "L", "_", "A", "D", "D", "R", "E", "S", "S" >>,
         pattern |-> Cat(<< WordBoundary,
                            AtLeast(Cls(Upper \cup Lower \cup Digit
                                        \cup {".", "_", "%", "+", "-"}), 1),
                            Cls({"@"}),
                            AtLeast(Cls(Upper \cup Lower \cup Digit \cup {".", "-"}), 1),
                            Cls({"."}),
                            AtLeast(Cls(Upper \cup {"|"} \cup Lower), 2),
                            WordBoundary >>) ],
       [ entity_type |-> "PHONE_NUMBER",
         chars |-> << "P", "H", "O", "N", "E", "_", "N", "U", "M", "B", "E", "R" >>,
         pattern |-> Cat(<< WordBoundary,
                            Opt(Cat(<< Opt(Cls({"+"})), Opt(Cls({"1"})),
                                       Opt(Cls(SpaceChars)) >>)),
                            Cat(<< Opt(Cls({"("})), Digits(3), Opt(Cls({")"})),
                                   Opt(Cls(SepChars)) >>),
                            Cat(<< Digits(3), Opt(Cls(SepChars)), Digits(4) >>),
                            WordBoundary >>) ],
       [ entity_type |-> "CREDIT_CARD",
         chars |-> << "C", "R", "E", "D", "I", "T", "_", "C", "A", "R", "D" >>,
         pattern |-> Cat(<< WordBoundary,
                            Rep(Cat(<< Digits(4), Opt(Cls(DashChars)) >>), 3, 3),
                            Digits(4),
                            WordBoundary >>) ],
       [ entity_type |-> "US_SSN",
         chars |-> << "U", "S", "_", "S", "S", "N" >>,
         pattern |-> Cat(<< WordBoundary, Digits(3), Cls({"-"}), Digits(2), Cls({"-"}),
                            Digits(4), WordBoundary >>) ],
       [ entity_type |-> "IP_ADDRESS",
         chars |-> << "I", "P", "_", "A", "D", "D", "R", "E", "S", "S" >>,
         pattern |-> Cat(<< WordBoundary,
                            Rep(Cat(<< Rep(Cls(Digit), 1, 3), Cls({"."}) >>), 3, 3),
                            Rep(Cls(Digit), 1, 3),
                            WordBoundary >>) ] >>

\* variant: the placeholder is the bare entity type, without "<" and ">"
Placeholder_bare(p) == p.chars

\* f"<{entity_type}>"
Placeholder(p) == << "<" >> \o p.chars \o << ">" >>

\* a RedactionResult
RedactionResult(redacted_text, entities_found, redaction_count) ==
    [ redacted_text |-> redacted_text, entities_found |-> entities_found,
      redaction_count |-> redaction_count ]
NoRedaction == RedactionResult(<< >>, << >>, 0)

\* _redact_regex(text): the patterns are applied one after the other, each
\* to the text the one before it left
redact_regex(text) ==
    LET after[k \in 0..Len(Patterns)] ==
            IF k = 0 THEN RedactionResult(text, << >>, 0)
            ELSE LET r == after[k - 1]
                     p == Patterns[k]
                     matches == findall(p.pattern, r.redacted_text)
                 IN  IF matches > 0
                     THEN RedactionResult(sub(p.pattern, Placeholder(p), r.redacted_text),
                                          Append(r.entities_found, p.entity_type),
                                          r.redaction_count + matches)
                     ELSE r
    IN  after[Len(Patterns)]

\* redact(text) of a redactor without Presidio (self._backend == "regex")
redact(enabled, text) ==
    IF ~enabled THEN RedactionResult(text, << >>, 0) ELSE redact_regex(text)

\* the redactor after construction, with no text to redact
RedactorInit ==
    /\ pii_enabled = TRUE
    /\ pii_text = << >>
    /\ pii_out = NoRedaction
    /\ pii_calls = 0

\* ----------------------------------------------------------- authentication
\* HTTP status codes
HTTP_401_UNAUTHORIZED == 401
HTTP_403_FORBIDDEN == 403
\* no HTTPException was raised
NoException == 0

\* TEAM_API_KEYS
TEAM_API_KEYS ==
    [ k \in {"sk-gateway-finance-001", "sk-gateway-engineering-001",
             "sk-gateway-marketing-001", "sk-gateway-default-001"} |->
        CASE k = "sk-gateway-finance-001" -> "finance-team"
          [] k = "sk-gateway-engineering-001" -> "engineering-team"
          [] k = "sk-gateway-marketing-001" -> "marketing-team"
          [] k = "sk-gateway-default-001" -> "default" ]

\* "not x" for an Optional[str] x: x is None or the empty string
Falsy(x) == x = None \/ x = Some("")

\* variant: a key that is not registered is served as team "default"
require_api_key_default_team(api_key) ==
    IF Falsy(api_key)
    THEN [ status_code |-> HTTP_401_UNAUTHORIZED, team_id |-> None ]
    ELSE [ status_code |-> NoException,
           team_id |-> Some(DictGet(TEAM_API_KEYS, api_key[1], "default")) ]

\* require_api_key(api_key): the HTTPException raised, or the team id returned
require_api_key(api_key) ==
    IF Falsy(api_key)
    THEN [ status_code |-> HTTP_401_UNAUTHORIZED, team_id |-> None ]
    ELSE LET team_id == IF api_key[1] \in DOMAIN TEAM_API_KEYS
                        THEN Some(TEAM_API_KEYS[api_key[1]]) ELSE None
         IN  IF Falsy(team_id)
             THEN [ status_code |-> HTTP_403_FORBIDDEN, team_id |-> None ]
             ELSE [ status_code |-> NoException, team_id |-> team_id ]

\* no request is to come
AuthInit ==
    /\ auth_in = << >>
    /\ auth_out = << >>

\* the locals of a task that serves no request
NoContext ==
    [ request |-> 0, team_id |-> NoTeam, prompt |-> << >>, sent |-> << >>,
      estimated_cost |-> 0, status |-> "", fallback_reason |-> None,
      error_message |-> None ]
NoContent == [ prompt |-> << >>, sent |-> << >>, completion |-> << >> ]

\* the pipeline with no request received
PipelineIdle ==
    /\ ppc = [t \in Tasks |-> "idle"]
    /\ ctx = [t \in Tasks |-> NoContext]
    /\ trace = [i \in 1..MaxPipelineRequests |-> << >>]
    /\ content = [i \in 1..MaxPipelineRequests |-> NoContent]
    /\ narrived = 0

\* ----------------------------------------------------------- cost estimator
\* a row of the cost table: USD per 1K tokens, in millionths of a dollar
Rate(input, output) == [ input |-> input, output |-> output ]

\* COST_PER_1K_TOKENS
COST_PER_1K_TOKENS ==
    [ provider \in {"anthropic", "openai", "azure_openai", "gemini"} |->
        CASE provider = "anthropic" ->
                 ("claude-opus-4-6" :> Rate(15000, 75000))
              @@ ("claude-sonnet-4-6" :> Rate(3000, 15000))
              @@ ("claude-haiku-4-5" :> Rate(250, 1250))
              @@ ("default" :> Rate(3000, 15000))
          [] provider = "openai" ->
                 ("gpt-4o" :> Rate(5000, 15000))
              @@ ("gpt-4o-mini" :> Rate(150, 600))
              @@ ("gpt-4-turbo" :> Rate(10000, 30000))
              @@ ("default" :> Rate(5000, 15000))
          [] provider = "azure_openai" ->
                 ("gpt-4o" :> Rate(5000, 15000))
              @@ ("default" :> Rate(5000, 15000))
          [] provider = "gemini" ->
                 ("gemini-1.5-pro" :> Rate(1250, 5000))
              @@ ("gemini-1.5-flash" :> Rate(75, 300))
              @@ ("default" :> Rate(1250, 5000)) ]

\* the row used when neither the model nor a "default" row is found
SystemDefaultRate == Rate(5000, 15000)

\* variant: a model that is not in the provider's rows is charged the system
\* default, the provider's "default" row is not looked up
estimate_cost_system_default(provider, model, prompt_tokens, completion_tokens) ==
    LET provider_costs == DictGet(COST_PER_1K_TOKENS, provider, EmptyDict)
        model_costs == DictGet(provider_costs, model, SystemDefaultRate)
    IN  prompt_tokens * model_costs.input + completion_tokens * model_costs.output

\* estimate_cost, in billionths of a dollar: a token costs a thousandth of the
\* rate per 1K tokens, and the rates are in millionths of a dollar
estimate_cost(provider, model, prompt_tokens, completion_tokens) ==
    LET provider_costs == DictGet(COST_PER_1K_TOKENS, provider, EmptyDict)
        model_costs == DictGet(provider_costs, model,
                               DictGet(provider_costs, "default", SystemDefaultRate))
    IN  prompt_tokens * model_costs.input + completion_tokens * model_costs.output

\* no estimate_cost call is under way
EstimatorIdle ==
    /\ est_in = [ provider |-> NoProvider, model |-> "", prompt_tokens |-> 0,
                  completion_tokens |-> 0 ]
    /\ est_out = None

\* ----------------------------------------------------------- Gemini adapter
\* " ".join(parts)
RECURSIVE join(_)
join(parts) ==
    IF parts = << >> THEN << >>
    ELSE IF Len(parts) = 1 THEN parts[1]
    ELSE parts[1] \o << " " >> \o join(Tail(parts))

\* len(s.split()): the runs of characters of s that are not whitespace
WordCount(s) ==
    Cardinality({ i \in 1..Len(s) :
                    s[i] \notin Whitespace /\ (i = 1 \/ s[i - 1] \in Whitespace) })

\* variant: the estimate is rounded up
EstimateTokens_ceil(n) == (13 * n + 9) \div 10

\* int(n * 1.3): the fraction of the product is dropped (floor(13 n / 10))
EstimateTokens(n) == (13 * n) \div 10

\* [m.content for m in messages]
Contents(messages) == [i \in 1..Len(messages) |-> messages[i].content]

\* the token counts of the AdapterResponse that GeminiAdapter.complete
\* returns for the messages and the text of the vendor's response
gemini_complete(messages, text) ==
    [ prompt_tokens |-> EstimateTokens(WordCount(join(Contents(messages)))),
      completion_tokens |-> EstimateTokens(WordCount(text)) ]

\* no complete call is under way
GeminiIdle ==
    /\ gem_in = [ messages |-> << >>, text |-> << >> ]
    /\ gem_out = None

\* ------------------------------------------- circuit breaker under threads
\* the locals of a thread that is in no breaker call
NoLocals == [ provider |-> NoProvider, failures |-> 0, tripped |-> NoTime ]

\* no thread is in a breaker call
RaceIdle ==
    /\ rpc = [t \in Tasks |-> "idle"]
    /\ rloc = [t \in Tasks |-> NoLocals]
    /\ recorded = [ failures |-> [p \in Provider |-> 0], requests |-> 0 ]

\* no all_teams call is under way
ListingIdle ==
    /\ all_ids = {}
    /\ views = << >>

\* record_failure has not been called
NeverFailed == failed_at = [p \in Provider |-> NoTime]

\* the parts that are examined on their own, at rest
ComponentsIdle ==
    /\ EstimatorIdle
    /\ GeminiIdle
    /\ RaceIdle
    /\ NeverFailed
    /\ ListingIdle

GatewayInit ==
    AuditLoggerInit /\ AuthInit /\ RedactorInit /\ PipelineIdle /\ ComponentsIdle

NoResult == [ kind |-> "none", provider |-> NoProvider,
              fallback_triggered |-> FALSE, fallback_reason |-> NoReason,
              provider_errors |-> EmptyDict ]

\* ------------------------------------------------------------------- Init
Init ==
    /\ clock = 0
    /\ \E d \in Deployments :
           /\ provider_priority = d.priority
           /\ available = d.available
           /\ workers = d.workers
    /\ failures = [p \in Provider |-> 0]
    /\ tripped_at = [p \in Provider |-> NoTime]
    /\ half_open = [p \in Provider |-> FALSE]
    /\ opened_at = [p \in Provider |-> NoTime]
    /\ pc = [t \in Tasks |-> "idle"]
    /\ priority = [t \in Tasks |-> <<>>]
    /\ idx = [t \in Tasks |-> 1]
    /\ provider_errors = [t \in Tasks |-> EmptyDict]
    /\ fallback_triggered = [t \in Tasks |-> FALSE]
    /\ fallback_reason = [t \in Tasks |-> NoReason]
    /\ first_tried = [t \in Tasks |-> NoProvider]
    /\ attempted = [t \in Tasks |-> <<>>]
    /\ result = [t \in Tasks |-> NoResult]
    /\ BudgetStoreInit
    /\ GatewayInit

\* ---------------------------------------------------------------- actions
\* time passes
Tick(d) ==
    /\ clock + d <= MaxClock
    /\ clock' = clock + d
    /\ opened_at' = [p \in Provider |->
                        IF opened_at[p] # NoTime /\ clock' - opened_at[p] > COOLDOWN_SECONDS
                        THEN NoTime ELSE opened_at[p]]
    /\ UNCHANGED << config, failures, tripped_at, half_open, pc, locals, result >>
    /\ UNCHANGED << budget, gateway >>

\* route_request is called: the traversal order and the locals are set up
StartStep(t, preferred) ==
    /\ t \in workers
    /\ pc[t] \in {"idle", "done"}
    /\ priority' = [priority EXCEPT ![t] = BuildPriority(provider_priority, preferred)]
    /\ idx' = [idx EXCEPT ![t] = 1]
    /\ provider_errors' = [provider_errors EXCEPT ![t] = EmptyDict]
    /\ fallback_triggered' = [fallback_triggered EXCEPT ![t] = FALSE]
    /\ fallback_reason' = [fallback_reason EXCEPT ![t] = NoReason]
    /\ first_tried' = [first_tried EXCEPT ![t] = NoProvider]
    /\ attempted' = [attempted EXCEPT ![t] = <<>>]
    /\ result' = [result EXCEPT ![t] = NoResult]
    /\ pc' = [pc EXCEPT ![t] = "loop"]
    /\ UNCHANGED << clock, config, breaker >>

\* route_request is called by a task that serves nothing but this call
Start(t, preferred) ==
    /\ StartStep(t, preferred)
    /\ UNCHANGED << budget, gateway >>

\* route_request returns or raises: its locals are gone
Exit(t) ==
    /\ priority' = [priority EXCEPT ![t] = <<>>]
    /\ idx' = [idx EXCEPT ![t] = 1]
    /\ provider_errors' = [provider_errors EXCEPT ![t] = EmptyDict]
    /\ fallback_triggered' = [fallback_triggered EXCEPT ![t] = FALSE]
    /\ fallback_reason' = [fallback_reason EXCEPT ![t] = NoReason]
    /\ first_tried' = [first_tried EXCEPT ![t] = NoProvider]
    /\ attempted' = [attempted EXCEPT ![t] = <<>>]

\* the provider the for loop of call t is at
Current(t) == priority[t][idx[t]]

\* one iteration of the for loop up to the call of adapter.complete
ConsiderStep(t) ==
    /\ pc[t] = "loop"
    /\ idx[t] <= Len(priority[t])
    /\ LET p == Current(t)
           q == is_open(failures, tripped_at, p, clock)
       IN  IF p \notin PROVIDER_REGISTRY
           THEN /\ idx' = [idx EXCEPT ![t] = @ + 1]
                /\ UNCHANGED << breaker, pc, provider_errors, fallback_triggered,
                                fallback_reason, first_tried, attempted >>
           ELSE IF p \notin available
           THEN /\ provider_errors' = [provider_errors EXCEPT ![t] = DictSet(@, p, NotConfigured)]
                /\ idx' = [idx EXCEPT ![t] = @ + 1]
                /\ UNCHANGED << breaker, pc, fallback_triggered, fallback_reason,
                                first_tried, attempted >>
           ELSE /\ failures' = q.failures
                /\ tripped_at' = q.tripped_at
                /\ half_open' = IF q.reset THEN [half_open EXCEPT ![p] = TRUE] ELSE half_open
                /\ UNCHANGED opened_at
                /\ IF q.ret
                   THEN /\ provider_errors' = [provider_errors EXCEPT ![t] = DictSet(@, p, CircuitOpen)]
                        /\ idx' = [idx EXCEPT ![t] = @ + 1]
                        /\ UNCHANGED << pc, fallback_triggered, fallback_reason,
                                        first_tried, attempted >>
                   ELSE /\ IF IsFallback(first_tried[t], idx[t], provider_errors[t])
                           THEN /\ fallback_triggered' = [fallback_triggered EXCEPT ![t] = TRUE]
                                /\ fallback_reason' = [fallback_reason EXCEPT ![t] =
                                       FallbackReason(first_tried[t], provider_errors[t])]
                           ELSE UNCHANGED << fallback_triggered, fallback_reason >>
                        /\ first_tried' = [first_tried EXCEPT ![t] = NextFirstTried(@, p)]
                        /\ attempted' = [attempted EXCEPT ![t] = Append(@, p)]
                        /\ pc' = [pc EXCEPT ![t] = "calling"]
                        /\ UNCHANGED << idx, provider_errors >>
    /\ UNCHANGED << clock, config, priority, result >>

\* the for loop of a call goes through one iteration, alone
Consider(t) ==
    /\ ConsiderStep(t)
    /\ UNCHANGED << budget, gateway >>

\* adapter.complete returned a response
CompleteOkStep(t) ==
    /\ pc[t] = "calling"
    /\ LET p == Current(t)
           s == record_success(failures, tripped_at, p)
       IN  /\ failures' = s.failures
           /\ tripped_at' = s.tripped_at
           /\ half_open' = [half_open EXCEPT ![p] = FALSE]
           /\ UNCHANGED opened_at
           /\ result' = [result EXCEPT ![t] =
                  [ kind |-> "response", provider |-> p,
                    fallback_triggered |-> fallback_triggered[t],
                    fallback_reason |-> fallback_reason[t],
                    provider_errors |-> EmptyDict ]]
    /\ pc' = [pc EXCEPT ![t] = "done"]
    /\ Exit(t)
    /\ UNCHANGED << clock, config >>

\* adapter.complete returns to a call, alone
CompleteOk(t) ==
    /\ CompleteOkStep(t)
    /\ UNCHANGED << budget, gateway >>

\* adapter.complete raised an exception with message e
CompleteFailStep(t, e) ==
    /\ pc[t] = "calling"
    /\ LET p == Current(t)
           s == record_failure(failures, tripped_at, p, clock)
       IN  /\ provider_errors' = [provider_errors EXCEPT ![t] = DictSet(@, p, e)]
           /\ failures' = s.failures
           /\ tripped_at' = s.tripped_at
           /\ half_open' = [half_open EXCEPT ![p] = FALSE]
           /\ opened_at' = IF tripped_at[p] = NoTime /\ s.tripped_at[p] # NoTime
                           THEN [opened_at EXCEPT ![p] = clock]
                           ELSE opened_at
    /\ idx' = [idx EXCEPT ![t] = @ + 1]
    /\ pc' = [pc EXCEPT ![t] = "loop"]
    /\ UNCHANGED << clock, config, priority, fallback_triggered, fallback_reason,
                    first_tried, attempted, result >>

\* adapter.complete raises one of the exceptions of the adapter, alone
CompleteFail(t, e) ==
    /\ pc[t] = "calling"
    /\ e \in AdapterErrors(Current(t))
    /\ CompleteFailStep(t, e)
    /\ UNCHANGED << budget, gateway >>

\* the for loop is exhausted: GatewayError
RaiseGatewayErrorStep(t) ==
    /\ pc[t] = "loop"
    /\ idx[t] > Len(priority[t])
    /\ result' = [result EXCEPT ![t] =
           [ kind |-> "GatewayError", provider |-> NoProvider,
             fallback_triggered |-> FALSE, fallback_reason |-> NoReason,
             provider_errors |-> provider_errors[t] ]]
    /\ pc' = [pc EXCEPT ![t] = "done"]
    /\ Exit(t)
    /\ UNCHANGED << clock, config, breaker >>

\* route_request raises GatewayError, alone
RaiseGatewayError(t) ==
    /\ RaiseGatewayErrorStep(t)
    /\ UNCHANGED << budget, gateway >>

\* ProviderCircuitBreaker.status: is_open is evaluated for every provider (a
\* call made while no provider is tripped changes nothing)
Status ==
    /\ \E p \in Provider : tripped_at[p] # NoTime
    /\ failures' = [p \in Provider |-> is_open(failures, tripped_at, p, clock).failures[p]]
    /\ tripped_at' = [p \in Provider |-> is_open(failures, tripped_at, p, clock).tripped_at[p]]
    /\ half_open' = [p \in Provider |->
                        half_open[p] \/ is_open(failures, tripped_at, p, clock).reset]
    /\ UNCHANGED opened_at
    /\ UNCHANGED << clock, config, pc, locals, result >>
    /\ UNCHANGED << budget, gateway >>

\* ------------------------------------------------- actions of the budget store
\* the dates that a second date.today() call can return when the first one
\* returned date_today: the same date, or the next one when midnight passes
\* between the two calls
SecondRead == { dm \in 1..last_day : dm = date_today \/ dm = date_today + 1 }

\* midnight: date.today() moves on to the next day
NextDay ==
    /\ date_today < last_day
    /\ date_today' = date_today + 1
    /\ ret' = NoReturn
    /\ UNCHANGED gateway
    /\ UNCHANGED << workers, router, teams, reconfigure, last_day, lock, store, bpc, req, nreq,
                    committed >>

\* get_budget(team_id), called by an idle task; dm is the date of its second
\* date.today() call
GetBudget(t, team_id, dm) ==
    /\ t \in workers
    /\ bpc[t] = "idle"
    /\ Acquirable(lock)
    /\ dm \in SecondRead
    /\ date_today' = dm
    /\ ret' =
           [ task |-> t, op |-> "get_budget", team_id |-> team_id, estimated_cost |-> 0,
             day |-> date_today, mday |-> dm,
             budget |-> get_budget(budgets, daily_usage, monthly_usage, team_id,
                                   date_today, dm),
             allowed |-> FALSE, reason |-> EmptyReason ]
    /\ daily_usage' = AfterGet(daily_usage, team_id)
    /\ monthly_usage' = AfterGet(monthly_usage, team_id)
    /\ UNCHANGED gateway
    /\ UNCHANGED << workers, router, teams, reconfigure, last_day, lock, budgets, bpc, req, nreq,
                    committed >>

\* set_team_budget(team_id, daily_usd, monthly_usd), called by an idle task
SetTeamBudget(t, team_id, limits) ==
    /\ t \in workers
    /\ team_id \in teams
    /\ bpc[t] = "idle"
    /\ reconfigure \/ nreq = 0
    /\ Acquirable(lock)
    /\ budgets' = set_team_budget(budgets, team_id, limits.daily_limit_usd,
                                  limits.monthly_limit_usd)
    /\ ret' = NoReturn
    /\ UNCHANGED gateway
    /\ UNCHANGED << workers, router, teams, reconfigure, last_day, date_today, lock, daily_usage,
                    monthly_usage, bpc, req, nreq, committed >>

\* a request of team_id reaches the budget check ("call BEFORE making the LLM
\* request"): check_budget is called with the estimated cost; an allowed
\* request goes on to its provider call, a denied one ends
BudgetCheck(t, team_id, estimated_cost, dm) ==
    /\ t \in workers
    /\ team_id \in teams
    /\ bpc[t] = "idle"
    /\ nreq < MaxRequests
    /\ Acquirable(lock)
    /\ dm \in SecondRead
    /\ date_today' = dm
    /\ LET b == get_budget(budgets, daily_usage, monthly_usage, team_id, date_today, dm)
           c == check_budget(b, team_id, estimated_cost)
       IN  /\ ret' =
                  [ task |-> t, op |-> "check_budget", team_id |-> team_id,
                    estimated_cost |-> estimated_cost,
                    day |-> date_today, mday |-> dm, budget |-> b,
                    allowed |-> c.allowed, reason |-> c.reason ]
           /\ IF c.allowed
              THEN /\ bpc' = [bpc EXCEPT ![t] = "call"]
                   /\ req' = [req EXCEPT ![t] = [NoRequest EXCEPT !.team_id = team_id,
                                                     !.estimated_cost = estimated_cost]]
              ELSE UNCHANGED << bpc, req >>
    /\ daily_usage' = AfterGet(daily_usage, team_id)
    /\ monthly_usage' = AfterGet(monthly_usage, team_id)
    /\ nreq' = nreq + 1
    /\ UNCHANGED gateway
    /\ UNCHANGED << workers, router, teams, reconfigure, last_day, lock, budgets, committed >>

\* the provider call of the request failed: nothing is recorded
ProviderFailed(t) ==
    /\ bpc[t] = "call"
    /\ bpc' = [bpc EXCEPT ![t] = "idle"]
    /\ req' = [req EXCEPT ![t] = NoRequest]
    /\ UNCHANGED gateway
    /\ UNCHANGED << workers, router, teams, reconfigure, last_day, date_today, lock, store, nreq,
                    committed >>
    /\ ret' = NoReturn

\* the provider call succeeded and record_usage(team_id, actual_cost) is
\* called ("call AFTER a successful LLM response"), with an actual cost that
\* is not above the estimate: the lock is taken, the keys are computed (dm is
\* the date of the second date.today() call), the team's dicts are created
\* and the day bucket is read
RecordUsage(t, actual_cost, dm) ==
    /\ bpc[t] = "call"
    /\ actual_cost <= req[t].estimated_cost
    /\ Acquirable(lock)
    /\ lock' = t
    /\ dm \in SecondRead
    /\ date_today' = dm
    /\ LET team_id == req[t].team_id
           today == isoformat(date_today)
       IN  /\ daily_usage' = EnsureTeam(daily_usage, team_id)
           /\ monthly_usage' = EnsureTeam(monthly_usage, team_id)
           /\ req' = [req EXCEPT ![t] = [@ EXCEPT
                  !.actual_cost = actual_cost,
                  !.today = today,
                  !.month = strftime(dm),
                  !.day = date_today,
                  !.mday = dm,
                  !.read = DictGet(daily_usage'[team_id], DayKey(today), 0)]]
    /\ bpc' = [bpc EXCEPT ![t] = "daily"]
    /\ ret' = NoReturn
    /\ UNCHANGED gateway
    /\ UNCHANGED << workers, router, teams, reconfigure, last_day, budgets, nreq, committed >>

\* the day bucket is written and the request counter is read
RecordDaily(t) ==
    /\ bpc[t] = "daily"
    /\ LET r == req[t]
       IN  /\ daily_usage' = DictSet2(daily_usage, r.team_id, DayKey(r.today),
                                      r.read + r.actual_cost)
           /\ req' = [req EXCEPT ![t] = [@ EXCEPT
                  !.read = DictGet(daily_usage'[r.team_id], CountKey(r.today), 0)]]
    /\ bpc' = [bpc EXCEPT ![t] = "count"]
    /\ UNCHANGED gateway
    /\ UNCHANGED << workers, router, teams, reconfigure, last_day, date_today, lock, budgets,
                    monthly_usage, nreq, committed >>
    /\ ret' = NoReturn

\* the request counter is written and the month bucket is read
RecordCount(t) ==
    /\ bpc[t] = "count"
    /\ LET r == req[t]
       IN  /\ daily_usage' = DictSet2(daily_usage, r.team_id, CountKey(r.today), r.read + 1)
           /\ req' = [req EXCEPT ![t] = [@ EXCEPT
                  !.read = DictGet(monthly_usage[r.team_id], MonthKey(r.month), 0)]]
    /\ bpc' = [bpc EXCEPT ![t] = "monthly"]
    /\ UNCHANGED gateway
    /\ UNCHANGED << workers, router, teams, reconfigure, last_day, date_today, lock, budgets,
                    monthly_usage, nreq, committed >>
    /\ ret' = NoReturn

\* the month bucket is written, the lock is released and record_usage returns
RecordMonthly(t) ==
    /\ bpc[t] = "monthly"
    /\ LET r == req[t]
       IN  /\ monthly_usage' = DictSet2(monthly_usage, r.team_id, MonthKey(r.month),
                                        r.read + r.actual_cost)
           /\ committed' = [committed EXCEPT
                  ![r.team_id][r.day] = [@ EXCEPT !.cost = @ + r.actual_cost, !.n = @ + 1],
                  ![r.team_id][r.mday] = [@ EXCEPT !.mcost = @ + r.actual_cost]]
    /\ lock' = NoTask
    /\ bpc' = [bpc EXCEPT ![t] = "idle"]
    /\ req' = [req EXCEPT ![t] = NoRequest]
    /\ UNCHANGED gateway
    /\ UNCHANGED << workers, router, teams, reconfigure, last_day, date_today, budgets,
                    daily_usage, nreq >>
    /\ ret' = NoReturn

BudgetInit ==
    /\ clock = 0
    /\ provider_priority = << "anthropic", "openai", "azure_openai", "gemini" >>
    /\ available = Provider
    /\ \E d \in BudgetDeployments :
           /\ workers = d.workers
           /\ teams = d.teams
           /\ reconfigure = d.reconfigure
           /\ last_day = d.last_day
    /\ failures = [p \in Provider |-> 0]
    /\ tripped_at = [p \in Provider |-> NoTime]
    /\ half_open = [p \in Provider |-> FALSE]
    /\ opened_at = [p \in Provider |-> NoTime]
    /\ pc = [t \in Tasks |-> "idle"]
    /\ priority = [t \in Tasks |-> <<>>]
    /\ idx = [t \in Tasks |-> 1]
    /\ provider_errors = [t \in Tasks |-> EmptyDict]
    /\ fallback_triggered = [t \in Tasks |-> FALSE]
    /\ fallback_reason = [t \in Tasks |-> NoReason]
    /\ first_tried = [t \in Tasks |-> NoProvider]
    /\ attempted = [t \in Tasks |-> <<>>]
    /\ result = [t \in Tasks |-> NoResult]
    /\ date_today = 1
    /\ lock = NoTask
    /\ budgets = EmptyDict
    /\ daily_usage = EmptyDict
    /\ monthly_usage = EmptyDict
    /\ bpc = [t \in Tasks |-> "idle"]
    /\ req = [t \in Tasks |-> NoRequest]
    /\ ret = NoReturn
    /\ nreq = 0
    /\ committed = [tm \in Teams |-> [d \in 1..Len(Calendar) |->
                                          [ cost |-> 0, n |-> 0, mcost |-> 0 ]]]
    /\ GatewayInit

BudgetNext ==
    \/ NextDay
    \/ \E t \in Tasks, team_id \in Teams, dm \in 1..Len(Calendar) : GetBudget(t, team_id, dm)
    \/ \E t \in Tasks, team_id \in Teams, limits \in LimitChoices :
           SetTeamBudget(t, team_id, limits)
    \/ \E t \in Tasks, team_id \in Teams, c \in Costs, dm \in 1..Len(Calendar) :
           BudgetCheck(t, team_id, c, dm)
    \/ \E t \in Tasks : ProviderFailed(t)
    \/ \E t \in Tasks, c \in Costs, dm \in 1..Len(Calendar) : RecordUsage(t, c, dm)
    \/ \E t \in Tasks : RecordDaily(t)
    \/ \E t \in Tasks : RecordCount(t)
    \/ \E t \in Tasks : RecordMonthly(t)

BudgetSpec == BudgetInit /\ [][BudgetNext]_vars

Next ==
    \/ \E d \in TickSteps : Tick(d)
    \/ \E t \in Tasks, preferred \in PreferredChoices : Start(t, preferred)
    \/ \E t \in Tasks : Consider(t)
    \/ \E t \in Tasks : CompleteOk(t)
    \/ \E t \in Tasks, p \in Provider : \E e \in AdapterErrors(p) : CompleteFail(t, e)
    \/ \E t \in Tasks : RaiseGatewayError(t)
    \/ Status

Spec == Init /\ [][Next]_vars

TypeOK ==
    /\ clock \in 0..MaxClock
    /\ \A p \in Provider :
           /\ failures[p] \in Nat
           /\ tripped_at[p] \in {NoTime} \cup 0..MaxClock
    /\ \A t \in Tasks : pc[t] \in {"idle", "loop", "calling", "done"}
    /\ date_today \in 1..Len(Calendar)
    /\ lock \in Tasks \cup {NoTask}
    /\ nreq \in 0..MaxRequests
    /\ \A t \in Tasks : bpc[t] \in {"idle", "call", "daily", "count", "monthly", "all_teams",
                                     "waiting"}

\* ----------------------------------------------------------------- claims
\* what an is_open(p) query made in the current state returns, stated from
\* the breaker's fields
OpenNow(p) == tripped_at[p] # NoTime /\ clock - tripped_at[p] <= COOLDOWN_SECONDS

\* the result of an attempt of call t on provider p arrives
FailStep(t, p) ==
    pc[t] = "calling" /\ Current(t) = p /\ \E e \in AdapterErrors(p) : CompleteFail(t, e)

OkStep(t, p) ==
    pc[t] = "calling" /\ Current(t) = p /\ CompleteOk(t)

\* the providers attempted by call t whose attempt failed
FailedIn(t) ==
    { q \in DOMAIN provider_errors[t] : provider_errors[t][q] \in AdapterErrors(q) }

\* the first provider, in traversal order, that call t attempted and that failed
FirstFailed(t) ==
    LET i == CHOOSE j \in 1..Len(priority[t]) :
                 /\ priority[t][j] \in FailedIn(t)
                 /\ \A k \in 1..(j - 1) : priority[t][k] \notin FailedIn(t)
    IN  priority[t][i]

\* C1: a breaker that has counted FAILURE_THRESHOLD failures in a row is
\* tripped, and an is_open query made before the cooldown has elapsed
\* reports it open; with fewer failures counted the query reports it closed.
C1_OpensAtThreshold ==
    \A p \in Provider :
        /\ failures[p] >= FAILURE_THRESHOLD =>
               /\ tripped_at[p] # NoTime
               /\ clock - tripped_at[p] <= COOLDOWN_SECONDS => OpenNow(p)
        /\ failures[p] < FAILURE_THRESHOLD => ~OpenNow(p)

C1_Witness ==
    \E p \in Provider : failures[p] = FAILURE_THRESHOLD /\ tripped_at[p] = clock

\* C2: within COOLDOWN_SECONDS of the moment the breaker of p opened, an
\* is_open(p) query returns true whatever else was recorded for p meanwhile.
C2_OpenForWholeCooldown ==
    \A p \in Provider :
        (opened_at[p] # NoTime /\ clock - opened_at[p] <= COOLDOWN_SECONDS)
            => OpenNow(p)

\* C3: an is_open query on an open breaker returns true and changes nothing
\* while now - tripped_at <= COOLDOWN_SECONDS; once that is exceeded the query
\* returns false, sets the counter to 0 and clears tripped_at.  The router
\* shows the value returned: true skips the provider with the circuit-breaker
\* reason, false starts the attempt.
C3_QueryOnOpenBreaker ==
    [][ /\ \A t \in Tasks :
              (Consider(t) /\ Current(t) \in available
                           /\ tripped_at[Current(t)] # NoTime) =>
                  LET p == Current(t)
                  IN  IF clock - tripped_at[p] <= COOLDOWN_SECONDS
                      THEN /\ pc'[t] = "loop"
                           /\ DictGet(provider_errors'[t], p, <<>>) = CircuitOpen
                           /\ failures' = failures
                           /\ tripped_at' = tripped_at
                      ELSE /\ pc'[t] = "calling"
                           /\ failures'[p] = 0
                           /\ tripped_at'[p] = NoTime
                           /\ half_open'[p]
        /\ Status =>
              \A p \in Provider :
                  tripped_at[p] # NoTime =>
                      IF clock - tripped_at[p] <= COOLDOWN_SECONDS
                      THEN failures'[p] = failures[p] /\ tripped_at'[p] = tripped_at[p]
                      ELSE failures'[p] = 0 /\ tripped_at'[p] = NoTime /\ half_open'[p]
      ]_vars

C3_Witness ==
    \E p \in Provider :
        /\ half_open[p] /\ failures[p] = 0 /\ tripped_at[p] = NoTime
        /\ \E t \in Tasks : pc[t] = "calling" /\ Current(t) = p

\* C4 as stated: a single failed attempt on a half-open provider re-trips the
\* breaker, a successful one resets it.
C4_SingleFailureRetrips ==
    [][ \A t \in Tasks, p \in Provider :
            /\ (half_open[p] /\ FailStep(t, p)) => tripped_at'[p] # NoTime
            /\ (half_open[p] /\ OkStep(t, p)) =>
                   failures'[p] = 0 /\ tripped_at'[p] = NoTime
      ]_vars

\* C4 amended: on a half-open provider a successful attempt resets the
\* breaker; a failed attempt sets the counter to 1 and leaves the breaker
\* closed, so that is_open(p) still returns false after it.
C4_HalfOpenCountsFromZero ==
    [][ \A t \in Tasks, p \in Provider :
            /\ (half_open[p] /\ FailStep(t, p)) =>
                   /\ failures'[p] = 1
                   /\ tripped_at'[p] = NoTime
                   /\ 1 < FAILURE_THRESHOLD
            /\ (half_open[p] /\ OkStep(t, p)) =>
                   failures'[p] = 0 /\ tripped_at'[p] = NoTime
      ]_vars

C4_Witness ==
    \E t \in Tasks, p \in Provider :
        half_open[p] /\ pc[t] = "calling" /\ Current(t) = p /\ clock > COOLDOWN_SECONDS

\* C5: record_success sets the counter of p to 0 and clears tripped_at, so a
\* query then reports p closed; the counter grows by one per failure and the
\* breaker opens only on the failure that takes it from FAILURE_THRESHOLD - 1
\* to FAILURE_THRESHOLD, that is after FAILURE_THRESHOLD failures in a row.
C5_SuccessResets ==
    [][ /\ \A t \in Tasks, p \in Provider :
              OkStep(t, p) =>
                  /\ failures'[p] = 0
                  /\ tripped_at'[p] = NoTime
                  /\ ~(tripped_at'[p] # NoTime /\ clock' - tripped_at'[p] <= COOLDOWN_SECONDS)
        /\ \A p \in Provider :
              /\ failures'[p] > failures[p] => failures'[p] = failures[p] + 1
              /\ (tripped_at[p] = NoTime /\ tripped_at'[p] # NoTime) =>
                     /\ failures[p] = FAILURE_THRESHOLD - 1
                     /\ failures'[p] = FAILURE_THRESHOLD
      ]_vars

C5_Witness ==
    \E t \in Tasks :
        /\ pc[t] = "calling"
        /\ failures[Current(t)] \in 1..(FAILURE_THRESHOLD - 1)
        /\ tripped_at[Current(t)] = NoTime

\* C6: a step of route_request starts adapter.complete on p only if p is
\* configured and its breaker is not open at that moment; an unconfigured or
\* open provider is skipped, its reason is recorded and its breaker state is
\* left as it is.
C6_SkipsIneligible ==
    [][ \A t \in Tasks :
            /\ (pc[t] = "loop" /\ pc'[t] = "calling") =>
                   LET p == priority[t][idx[t]]
                   IN  /\ p \in available
                       /\ ~OpenNow(p)
                       /\ attempted'[t] = Append(attempted[t], p)
            /\ (Consider(t) /\ (Current(t) \notin available \/ OpenNow(Current(t)))) =>
                   LET p == Current(t)
                   IN  /\ pc'[t] = "loop"
                       /\ idx'[t] = idx[t] + 1
                       /\ attempted'[t] = attempted[t]
                       /\ p \in DOMAIN provider_errors'[t]
                       /\ provider_errors'[t][p] =
                              IF p \notin available THEN NotConfigured ELSE CircuitOpen
                       /\ failures' = failures
                       /\ tripped_at' = tripped_at
      ]_vars

C6_Witness ==
    \E t \in Tasks, p \in Provider, q \in Provider :
        /\ DictGet(provider_errors[t], p, <<>>) = CircuitOpen
        /\ DictGet(provider_errors[t], q, <<>>) = NotConfigured

\* C7: route_request returns the response of the provider whose attempt
\* succeeds, which is the first one in traversal order to succeed (every
\* earlier provider was skipped or failed); it resets that provider's breaker
\* only, has contacted no later provider, and takes no further step.
C7_FirstSuccessReturns ==
    [][ \A t \in Tasks :
            /\ CompleteOk(t) =>
                   LET p == Current(t)
                   IN  /\ pc'[t] = "done"
                       /\ result'[t].kind = "response"
                       /\ result'[t].provider = p
                       /\ failures'[p] = 0 /\ tripped_at'[p] = NoTime
                       /\ \A q \in Provider \ {p} :
                              failures'[q] = failures[q] /\ tripped_at'[q] = tripped_at[q]
                       /\ \A i \in 1..(idx[t] - 1) :
                              priority[t][i] \in DOMAIN provider_errors[t]
                       /\ \A i \in (idx[t] + 1)..Len(priority[t]) :
                              /\ priority[t][i] \notin DOMAIN provider_errors[t]
                              /\ \A j \in 1..Len(attempted[t]) :
                                     attempted[t][j] # priority[t][i]
            /\ (pc[t] = "done" /\ pc'[t] # "done") =>
                   pc'[t] = "loop" /\ idx'[t] = 1 /\ attempted'[t] = <<>>
      ]_vars

C7_Witness ==
    \E t \in Tasks, q \in Provider :
        /\ pc[t] = "done"
        /\ result[t].kind = "response"
        /\ result[t].provider # q
        /\ q \in available
        /\ failures[q] > 0

\* C8: a successful route_request returns fallback_triggered = true exactly
\* when a provider was attempted and failed earlier in the call; skips alone
\* leave it false, and when the first attempted provider succeeds the flag is
\* false and fallback_reason is null.
C8_FallbackIffEarlierFailure ==
    [][ \A t \in Tasks :
            CompleteOk(t) =>
                /\ result'[t].fallback_triggered <=> FailedIn(t) # {}
                /\ FailedIn(t) = {} =>
                       /\ result'[t].fallback_triggered = FALSE
                       /\ result'[t].fallback_reason = NoReason
      ]_vars

C8_Witness ==
    \E t \in Tasks :
        /\ pc[t] = "calling"
        /\ DOMAIN provider_errors[t] # {}
        /\ FailedIn(t) = {}
        /\ ~fallback_triggered[t]

\* C9: when route_request succeeds after failed attempts, fallback_reason
\* names the first provider that was attempted and carries the error recorded
\* for that provider, also when a second provider failed after it.
C9_ReasonNamesFirstAttempted ==
    [][ \A t \in Tasks :
            (CompleteOk(t) /\ FailedIn(t) # {}) =>
                LET a == FirstFailed(t)
                IN  /\ a = attempted[t][1]
                    /\ provider_errors[t][a] \in AdapterErrors(a)
                    /\ result'[t].fallback_reason =
                           << "Fell back from ", a, ": ", provider_errors[t][a] >>
      ]_vars

C9_Witness ==
    \E t \in Tasks :
        /\ pc[t] = "calling"
        /\ Cardinality(FailedIn(t)) = 2
        /\ fallback_reason[t] # NoReason
        /\ fallback_reason[t][2] = priority[t][1]

\* the 4th request of the scenario: anthropic, first in the order, is skipped
\* because its breaker is open, and the attempt on openai, next in the order,
\* succeeds
SkippedAnthropicServedByOpenai(t) ==
    /\ CompleteOk(t)
    /\ Len(priority[t]) >= 2
    /\ priority[t][1] = "anthropic"
    /\ priority[t][2] = "openai"
    /\ idx[t] = 2
    /\ DictGet(provider_errors[t], "anthropic", <<>>) = CircuitOpen

\* the third failure in a row of anthropic is recorded
ThirdAnthropicFailure(t) ==
    /\ FailStep(t, "anthropic")
    /\ failures["anthropic"] = FAILURE_THRESHOLD - 1

\* C10 as stated: the request that skips anthropic for its open breaker and
\* is served by openai returns fallback_triggered = true and a reason that
\* mentions the circuit breaker.
C10_SkipReportedAsFallback ==
    [][ \A t \in Tasks :
            SkippedAnthropicServedByOpenai(t) =>
                /\ result'[t].provider = "openai"
                /\ result'[t].fallback_triggered = TRUE
                /\ result'[t].fallback_reason =
                       << "Fell back from ", "anthropic", ": ", CircuitOpen >>
      ]_vars

\* C10 amended: the third failure in a row opens the anthropic breaker, and
\* the request that then skips anthropic and is served by openai returns
\* fallback_triggered = false and a null fallback_reason.
C10_SkipIsNotFallback ==
    [][ \A t \in Tasks :
            /\ ThirdAnthropicFailure(t) =>
                   tripped_at'["anthropic"] = clock
            /\ SkippedAnthropicServedByOpenai(t) =>
                   /\ result'[t].provider = "openai"
                   /\ result'[t].fallback_triggered = FALSE
                   /\ result'[t].fallback_reason = NoReason
      ]_vars

C10_Witness ==
    \E t \in Tasks :
        /\ pc[t] = "calling"
        /\ idx[t] = 2
        /\ priority[t][1] = "anthropic"
        /\ Current(t) = "openai"
        /\ DictGet(provider_errors[t], "anthropic", <<>>) = CircuitOpen
        /\ failures["anthropic"] >= FAILURE_THRESHOLD
        /\ ~fallback_triggered[t]

\* the elements of a sequence, and the position of an element in it
Range(s) == { s[i] : i \in 1..Len(s) }
PosIn(s, x) == CHOOSE i \in 1..Len(s) : s[i] = x
NoDuplicates(s) == \A i, j \in 1..Len(s) : s[i] = s[j] => i = j

\* C11: a call with a preferred provider that is in the configured list
\* traverses the preferred provider first and then the other configured
\* providers in their configured relative order; no provider occurs twice in
\* the traversal, the loop only moves forward by one position, and no
\* provider is attempted twice in a call.
C11_PreferredFirstEachOnce ==
    [][ \A t \in Tasks :
            /\ \A pref \in Provider :
                   (Start(t, pref) /\ pref \in Range(provider_priority)) =>
                       LET o == priority'[t]
                       IN  /\ o[1] = pref
                           /\ Len(o) = Len(provider_priority)
                           /\ Range(o) = Range(provider_priority)
                           /\ \A i, j \in 2..Len(o) :
                                  i < j => PosIn(provider_priority, o[i])
                                               < PosIn(provider_priority, o[j])
            /\ NoDuplicates(priority'[t])
            /\ NoDuplicates(attempted'[t])
            /\ (pc[t] \in {"loop", "calling"} /\ pc'[t] \in {"loop", "calling"}) =>
                   /\ priority'[t] = priority[t]
                   /\ idx'[t] \in {idx[t], idx[t] + 1}
      ]_vars

C11_Witness ==
    \E t \in Tasks :
        /\ pc[t] = "calling"
        /\ provider_priority[1] = "anthropic"
        /\ priority[t][1] = "openai"
        /\ idx[t] = 3
        /\ attempted[t] = << "openai", "anthropic", "azure_openai" >>

\* C12: a call with a preferred provider that is not in the configured list
\* traverses exactly the configured list, so that the preferred provider is
\* never attempted.
C12_UnlistedPreferredIgnored ==
    [][ \A t \in Tasks, pref \in Provider :
            (Start(t, pref) /\ pref \notin Range(provider_priority)) =>
                /\ priority'[t] = provider_priority
                /\ pref \notin Range(priority'[t])
      ]_vars

\* C13: when no provider succeeds the call raises GatewayError with one entry
\* for every provider of the traversal order and no other: "Not configured"
\* for an unconfigured provider, the circuit-breaker message for a configured
\* one that was skipped, the adapter's error for an attempted one; with no
\* provider configured every entry is "Not configured" and nothing was
\* attempted.
C13_GatewayErrorListsEveryProvider ==
    [][ \A t \in Tasks :
            RaiseGatewayError(t) =>
                LET e == result'[t].provider_errors
                IN  /\ result'[t].kind = "GatewayError"
                    /\ DOMAIN e = Range(priority[t])
                    /\ \A p \in DOMAIN e :
                           /\ p \notin available <=> e[p] = NotConfigured
                           /\ p \in Range(attempted[t]) <=> e[p] \in AdapterErrors(p)
                           /\ (p \in available /\ p \notin Range(attempted[t]))
                                  <=> e[p] = CircuitOpen
                    /\ available = {} =>
                           /\ attempted[t] = <<>>
                           /\ \A p \in DOMAIN e : e[p] = NotConfigured
      ]_vars

C13_Witness ==
    \E t \in Tasks :
        /\ result[t].kind = "GatewayError"
        /\ \E p, q, r \in DOMAIN result[t].provider_errors :
               /\ result[t].provider_errors[p] = NotConfigured
               /\ result[t].provider_errors[q] = CircuitOpen
               /\ result[t].provider_errors[r] \in AdapterErrors(r)
\* ------------------------------------------------- claims: budget store
\* the limits in force for a team: the ones set, else the configured defaults
LimitsOf(tm) ==
    IF tm \in DOMAIN budgets THEN budgets[tm]
    ELSE [ daily_limit_usd |-> DefaultDailyLimit, monthly_limit_usd |-> DefaultMonthlyLimit ]

\* what the store holds for a team in the bucket of day d, in the counter of
\* day d and in the bucket of the month of day d (0 where nothing is stored)
StoredUnder(u, tm, k) == IF tm \in DOMAIN u /\ k \in DOMAIN u[tm] THEN u[tm][k] ELSE 0
DailyUsed(tm, d) == StoredUnder(daily_usage, tm, DayKey(isoformat(d)))
DailyCount(tm, d) == StoredUnder(daily_usage, tm, CountKey(isoformat(d)))
MonthlyUsed(tm, d) == StoredUnder(monthly_usage, tm, MonthKey(strftime(d)))
\* the same, in the state after the step
DailyUsedAfter(tm, d) == StoredUnder(daily_usage', tm, DayKey(isoformat(d)))
DailyCountAfter(tm, d) == StoredUnder(daily_usage', tm, CountKey(isoformat(d)))
MonthlyUsedAfter(tm, d) == StoredUnder(monthly_usage', tm, MonthKey(strftime(d)))

\* remaining = max(0, limit - used of the bucket of day d)
DailyRemaining(tm, d) == Max0(LimitsOf(tm).daily_limit_usd - DailyUsed(tm, d))
MonthlyRemaining(tm, d) == Max0(LimitsOf(tm).monthly_limit_usd - MonthlyUsed(tm, d))

\* C14: check_budget(t, c) returns allowed with an empty reason exactly when
\* c <= min(daily remaining, monthly remaining), remaining being
\* max(0, limit - used of the current bucket), the bucket of the date the call
\* has read; a denial names the daily budget whenever the daily check fails
\* and the monthly budget otherwise.
C14_AllowedIffWithinRemaining ==
    ret.op = "check_budget" =>
        LET tm == ret.team_id
            c == ret.estimated_cost
            dr == DailyRemaining(tm, ret.day)
            mr == MonthlyRemaining(tm, ret.mday)
        IN  /\ (ret.allowed /\ ret.reason = EmptyReason) <=> (c <= dr /\ c <= mr)
            /\ ~ret.allowed =>
                   ret.reason = IF c > dr THEN DailyExceeded(tm) ELSE MonthlyExceeded(tm)

\* the days of the calendar
Days == 1..Len(Calendar)

\* x is y rounded to 6 decimal places: a whole number of millionths of a
\* dollar, less than half a millionth away from y
Rounded6(x, y) == x % MicroUSD = 0 /\ 2 * x < 2 * y + MicroUSD /\ 2 * y < 2 * x + MicroUSD

\* the last call returned was a get_budget for a team that had its limits set
\* to 10 and 100 dollars, after record_usage calls of one cost made on the day
\* of the get_budget call and on no other day
SameDayScenario ==
    /\ ret.op = "get_budget"
    /\ ret.day = ret.mday
    /\ ret.team_id \in DOMAIN budgets
    /\ budgets[ret.team_id] = [ daily_limit_usd |-> 10 * USD, monthly_limit_usd |-> 100 * USD ]
    /\ \A d \in Days \ {ret.day} : committed[ret.team_id][d].n = 0
    /\ committed[ret.team_id][ret.day].n > 0
    /\ \E c \in Costs :
           committed[ret.team_id][ret.day].cost = committed[ret.team_id][ret.day].n * c

\* every bucket and counter of the store other than those of (tm, d) keeps its value
OtherDaysUnchanged(tm, d) ==
    \A tm2 \in Teams, d2 \in Days :
        (tm2 # tm \/ isoformat(d2) # isoformat(d)) =>
            /\ DailyUsedAfter(tm2, d2) = DailyUsed(tm2, d2)
            /\ DailyCountAfter(tm2, d2) = DailyCount(tm2, d2)
OtherMonthsUnchanged(tm, d) ==
    \A tm2 \in Teams, d2 \in Days :
        (tm2 # tm \/ strftime(d2) # strftime(d)) => MonthlyUsedAfter(tm2, d2) = MonthlyUsed(tm2, d2)
UsageUnchanged ==
    \A tm \in Teams, d \in Days :
        /\ DailyUsedAfter(tm, d) = DailyUsed(tm, d)
        /\ DailyCountAfter(tm, d) = DailyCount(tm, d)
        /\ MonthlyUsedAfter(tm, d) = MonthlyUsed(tm, d)

\* C15 as stated: after set_team_budget(t, 10, 100) and N record_usage(t, c)
\* calls on the same day, get_budget(t) reports daily_used_usd = N*c,
\* monthly_used_usd = N*c and request_count_today = N.
C15_ReportsExactTotals ==
    SameDayScenario =>
        /\ ret.budget.daily_used_usd = committed[ret.team_id][ret.day].cost
        /\ ret.budget.monthly_used_usd = committed[ret.team_id][ret.day].cost
        /\ ret.budget.request_count_today = committed[ret.team_id][ret.day].n

\* C15 amended: a record_usage(t, c) call adds c to t's bucket of the day it
\* read, 1 to the request counter of that day and c to the bucket of the month
\* it read, and changes nothing else; after set_team_budget(t, 10, 100) and N
\* record_usage(t, c) calls on the same day, get_budget(t) reports
\* request_count_today = N and, as daily_used_usd and monthly_used_usd, N*c
\* rounded to 6 decimal places.
C15_RecordAddsRoundedTotals ==
    [][ /\ \A t \in Tasks :
            LET r == req[t]
            IN  /\ (bpc[t] = "call" /\ bpc'[t] = "daily") =>
                       /\ UsageUnchanged
                       /\ req'[t].today = isoformat(date_today)
                       /\ req'[t].month = strftime(date_today')
                /\ (bpc[t] = "daily" /\ bpc'[t] = "count") =>
                       /\ DailyUsedAfter(r.team_id, r.day)
                              = DailyUsed(r.team_id, r.day) + r.actual_cost
                       /\ DailyCountAfter(r.team_id, r.day) = DailyCount(r.team_id, r.day)
                       /\ OtherDaysUnchanged(r.team_id, r.day)
                       /\ OtherMonthsUnchanged(NoTeam, r.mday)
                /\ (bpc[t] = "count" /\ bpc'[t] = "monthly") =>
                       /\ DailyCountAfter(r.team_id, r.day) = DailyCount(r.team_id, r.day) + 1
                       /\ DailyUsedAfter(r.team_id, r.day) = DailyUsed(r.team_id, r.day)
                       /\ OtherDaysUnchanged(r.team_id, r.day)
                       /\ OtherMonthsUnchanged(NoTeam, r.mday)
                /\ (bpc[t] = "monthly" /\ bpc'[t] = "idle") =>
                       /\ MonthlyUsedAfter(r.team_id, r.mday) =
                              MonthlyUsed(r.team_id, r.mday) + r.actual_cost
                       /\ OtherMonthsUnchanged(r.team_id, r.mday)
                       /\ OtherDaysUnchanged(NoTeam, r.day)
        /\ SameDayScenario' =>
               LET done == committed'[ret'.team_id][ret'.day]
               IN  /\ ret'.budget.request_count_today = done.n
                   /\ Rounded6(ret'.budget.daily_used_usd, done.cost)
                   /\ Rounded6(ret'.budget.monthly_used_usd, done.cost) ]_vars

\* two calls of a third of a millionth of a dollar are reported as one millionth
C15_Witness ==
    /\ SameDayScenario
    /\ committed[ret.team_id][ret.day].cost = 2
    /\ committed[ret.team_id][ret.day].n = 2
    /\ ret.budget.daily_used_usd = MicroUSD
    /\ ret.budget.request_count_today = 2

\* a record_usage call of task t is between its first and its last statement
MidRecord(t) == bpc[t] \in {"daily", "count", "monthly"}

\* the cost of the returned record_usage calls of team tm that went to the
\* bucket of the month of day d
MonthCommitted(tm, d) ==
    LET sum[k \in 0..Len(Calendar)] ==
            IF k = 0 THEN 0
            ELSE sum[k - 1] + (IF strftime(k) = strftime(d) THEN committed[tm][k].mcost ELSE 0)
    IN  sum[Len(Calendar)]

\* C16: record_usage is atomic with respect to concurrent get_budget,
\* check_budget and record_usage calls: at most one record_usage call is under
\* way at a time, no get_budget or check_budget call returns while one is, what
\* such a call reports is the total of the record_usage calls that have
\* returned, and whenever no record_usage call is under way every bucket holds
\* the sum of the costs recorded into it and every counter the number of the
\* calls (no update is lost).
C16_RecordIsAtomic ==
    /\ \A t, u \in Tasks : (MidRecord(t) /\ MidRecord(u)) => t = u
    /\ ret.op \in {"get_budget", "check_budget"} =>
           /\ \A t \in Tasks : ~MidRecord(t)
           /\ ret.budget.request_count_today = committed[ret.team_id][ret.day].n
           /\ Rounded6(ret.budget.daily_used_usd, committed[ret.team_id][ret.day].cost)
           /\ Rounded6(ret.budget.monthly_used_usd, MonthCommitted(ret.team_id, ret.mday))
    /\ (\A t \in Tasks : ~MidRecord(t)) =>
           \A tm \in Teams, d \in Days :
               /\ DailyUsed(tm, d) = committed[tm][d].cost
               /\ DailyCount(tm, d) = committed[tm][d].n
               /\ MonthlyUsed(tm, d) = MonthCommitted(tm, d)

\* three requests are under way at once: two have recorded their cost, and a
\* get_budget call made while the third is at its provider call reports both
C16_Witness ==
    /\ Cardinality(workers) = 3
    /\ ret.op = "get_budget"
    /\ ret.budget.request_count_today = 2
    /\ ret.budget.daily_used_usd = 2 * MicroUSD
    /\ \E t \in Tasks : bpc[t] = "call" /\ nreq = 3

\* the record_usage call of task t returns
RecordReturns(t) == bpc[t] = "monthly" /\ bpc'[t] = "idle"

\* C17: with a single worker, so that requests do not overlap, when the
\* record_usage call of a request that check_budget allowed returns, the
\* team's usage of the day and of the month it was recorded under is at most
\* the team's daily and monthly limit.
C17_UsedAtMostLimit ==
    [][ \A t \in Tasks :
            (Cardinality(workers) = 1 /\ RecordReturns(t)) =>
                LET r == req[t]
                IN  /\ DailyUsedAfter(r.team_id, r.day) <= LimitsOf(r.team_id).daily_limit_usd
                    /\ MonthlyUsedAfter(r.team_id, r.mday)
                           <= LimitsOf(r.team_id).monthly_limit_usd ]_vars

\* the largest cost of a request
MaxCost == CHOOSE c \in Costs : \A c2 \in Costs : c2 <= c

\* C18: with any number of concurrent requests of a team, each calling
\* check_budget with its estimate and, after its provider call, record_usage
\* with a cost not above the estimate, and limits that are set before the
\* first request, the team's usage of a day never exceeds the daily limit by
\* more than the cost of one request, and once every record_usage call has
\* returned the usage stored is the sum of the committed costs.
C18_OvershootAtMostOneRequest ==
    ~reconfigure =>
        \A tm \in teams, d \in Days :
            /\ DailyUsed(tm, d) <= LimitsOf(tm).daily_limit_usd + MaxCost
            /\ (\A t \in Tasks : ~MidRecord(t)) => DailyUsed(tm, d) = committed[tm][d].cost

\* nothing was ever set or recorded for team tm
Untouched(tm) ==
    /\ tm \notin DOMAIN budgets
    /\ tm \notin DOMAIN daily_usage
    /\ tm \notin DOMAIN monthly_usage
    /\ \A d \in Days : committed[tm][d].n = 0

\* C19: for a team with no set_team_budget and no record_usage, get_budget
\* returns the default limits of 10 and 200 dollars, used amounts 0, remaining
\* amounts equal to the limits and request count 0; a get_budget or
\* check_budget call leaves the limits, the usage buckets and the counters as
\* they are and creates no entry for the team.
C19_DefaultsAndNoEffect ==
    [][ \A t \in Tasks, tm \in Teams, dm \in Days :
            /\ (GetBudget(t, tm, dm) /\ Untouched(tm)) =>
                   ret'.budget = [ team_id |-> tm,
                                   daily_limit_usd |-> 10 * USD,
                                   monthly_limit_usd |-> 200 * USD,
                                   daily_used_usd |-> 0,
                                   monthly_used_usd |-> 0,
                                   daily_remaining_usd |-> 10 * USD,
                                   monthly_remaining_usd |-> 200 * USD,
                                   request_count_today |-> 0 ]
            /\ (GetBudget(t, tm, dm) \/ \E c \in Costs : BudgetCheck(t, tm, c, dm)) =>
                   /\ budgets' = budgets
                   /\ daily_usage' = daily_usage
                   /\ monthly_usage' = monthly_usage
                   /\ committed' = committed
                   /\ lock' = lock ]_vars

\* get_budget has returned the defaults for a team that nothing was set or
\* recorded for, in a store that holds limits and usage of another team
C19_Witness ==
    /\ ret.op = "get_budget"
    /\ Untouched(ret.team_id)
    /\ ret.budget.daily_remaining_usd = 10 * USD
    /\ \E tm \in Teams : tm \in DOMAIN budgets /\ tm \in DOMAIN daily_usage

\* what a get_budget(tm) call made on day d returns, before and after the step
ViewBefore(tm, d) == get_budget(budgets, daily_usage, monthly_usage, tm, d, d)
ViewAfter(tm, d) == get_budget(budgets', daily_usage', monthly_usage', tm, d, d)

\* the effect of set_team_budget(tm, lim) on the store, and the limits and
\* used amounts that get_budget(tm) reports after it
SetReplacesLimitsOnly(tm, lim) ==
    /\ budgets'[tm] = lim
    /\ \A tm2 \in DOMAIN budgets \ {tm} : tm2 \in DOMAIN budgets' /\ budgets'[tm2] = budgets[tm2]
    /\ daily_usage' = daily_usage
    /\ monthly_usage' = monthly_usage
    /\ \A d \in Days :
           /\ ViewAfter(tm, d).daily_limit_usd = lim.daily_limit_usd
           /\ ViewAfter(tm, d).monthly_limit_usd = lim.monthly_limit_usd
           /\ ViewAfter(tm, d).daily_used_usd = ViewBefore(tm, d).daily_used_usd
           /\ ViewAfter(tm, d).monthly_used_usd = ViewBefore(tm, d).monthly_used_usd
           /\ ViewAfter(tm, d).request_count_today = ViewBefore(tm, d).request_count_today

\* C20 as stated: set_team_budget(t, d, m) replaces t's limits by d and m and
\* leaves every usage bucket and counter unchanged; get_budget(t) then
\* reports the new limits, the same used amounts and
\* remaining = max(0, new limit - used).
C20_RemainingIsExact ==
    [][ \A t \in Tasks, tm \in Teams, lim \in LimitChoices :
            SetTeamBudget(t, tm, lim) =>
                /\ SetReplacesLimitsOnly(tm, lim)
                /\ \A d \in Days :
                       /\ ViewAfter(tm, d).daily_remaining_usd
                              = Max0(lim.daily_limit_usd - DailyUsed(tm, d))
                       /\ ViewAfter(tm, d).monthly_remaining_usd
                              = Max0(lim.monthly_limit_usd - MonthlyUsed(tm, d)) ]_vars

\* C20 amended: set_team_budget(t, d, m) replaces t's limits by d and m and
\* leaves every usage bucket and counter unchanged; get_budget(t) then
\* reports the new limits, the same used amounts and, as remaining,
\* max(0, new limit - used) rounded to 6 decimal places, which is 0 when the
\* new limit is below the amount already used.
C20_RemainingIsRounded ==
    [][ \A t \in Tasks, tm \in Teams, lim \in LimitChoices :
            SetTeamBudget(t, tm, lim) =>
                /\ SetReplacesLimitsOnly(tm, lim)
                /\ \A d \in Days :
                       /\ Rounded6(ViewAfter(tm, d).daily_remaining_usd,
                                   Max0(lim.daily_limit_usd - DailyUsed(tm, d)))
                       /\ Rounded6(ViewAfter(tm, d).monthly_remaining_usd,
                                   Max0(lim.monthly_limit_usd - MonthlyUsed(tm, d)))
                       /\ lim.daily_limit_usd < DailyUsed(tm, d)
                              => ViewAfter(tm, d).daily_remaining_usd = 0
                       /\ lim.monthly_limit_usd < MonthlyUsed(tm, d)
                              => ViewAfter(tm, d).monthly_remaining_usd = 0 ]_vars

\* limits of 10 and 100 dollars were replaced by a daily limit below the three
\* millionths already used that day, and get_budget reports 0 remaining
C20_Witness ==
    /\ ret.op = "get_budget"
    /\ ret.budget.daily_limit_usd = 5
    /\ ret.budget.daily_used_usd = 3 * MicroUSD
    /\ ret.budget.daily_remaining_usd = 0
    /\ ret.budget.request_count_today = 3

\* the cost of the returned record_usage calls of team tm that, by the
\* ledger, were made on days of the month of day d before day d
MonthCostBefore(ledger, tm, d) ==
    LET sum[k \in 0..Len(Calendar)] ==
            IF k = 0 THEN 0
            ELSE sum[k - 1]
                 + (IF k < d /\ strftime(k) = strftime(d) THEN ledger[tm][k].cost ELSE 0)
    IN  sum[Len(Calendar)]

\* usage dict u with, for team tm, nothing but the entries under the keys ks
OnlyKeys(u, tm, ks) ==
    IF tm \in DOMAIN u
    THEN DictSet(u, tm, [k \in (DOMAIN u[tm]) \cap ks |-> u[tm][k]])
    ELSE u

\* C21: rollover is lazy and keyed by date. A get_budget call made on a day
\* on which no record_usage call of the team was made yet reports
\* daily_used_usd = 0 and request_count_today = 0; when that day is a new day
\* of the same month it reports as monthly_used_usd what was recorded on the
\* earlier days of the month, and when no record_usage call was made yet in
\* the month of that day it reports monthly_used_usd = 0. A record_usage call
\* leaves the buckets of days and months other than the ones it read
\* unchanged, the passing of midnight changes no bucket, and check_budget
\* computes its answer from the bucket of the day and the bucket of the month
\* it read alone.
C21_LazyRollover ==
    [][ /\ ret'.op = "get_budget" =>
               LET tm == ret'.team_id
                   d == ret'.day
                   b == ret'.budget
               IN  /\ committed'[tm][d].n = 0 =>
                          /\ b.daily_used_usd = 0
                          /\ b.request_count_today = 0
                          /\ (d > 1 /\ strftime(d - 1) = strftime(d)) =>
                                 Rounded6(b.monthly_used_usd, MonthCostBefore(committed', tm, d))
                   /\ (\A d2 \in Days : strftime(d2) = strftime(d) => committed'[tm][d2].n = 0)
                          => b.monthly_used_usd = 0
        /\ NextDay => UsageUnchanged
        /\ \A t \in Tasks :
               (MidRecord(t) /\ bpc'[t] # bpc[t]) =>
                   /\ OtherDaysUnchanged(req[t].team_id, req[t].day)
                   /\ OtherMonthsUnchanged(req[t].team_id, req[t].mday)
        /\ ret'.op = "check_budget" =>
               LET tm == ret'.team_id
                   now == get_budget(budgets',
                                     OnlyKeys(daily_usage', tm,
                                              {DayKey(isoformat(ret'.day)),
                                               CountKey(isoformat(ret'.day))}),
                                     OnlyKeys(monthly_usage', tm, {MonthKey(strftime(ret'.mday))}),
                                     tm, ret'.day, ret'.mday)
                   c == check_budget(now, tm, ret'.estimated_cost)
               IN  /\ ret'.budget = now
                   /\ ret'.allowed = c.allowed
                   /\ ret'.reason = c.reason ]_vars

\* =========================================================== audit logger
\* AuditSpec is the specification of the audit logger (audit_logger.py): log
\* calls, the _ship_to_siem tasks they create and recent_entries calls.

\* audit_logger.log calls in one run
MaxLogs == 2
\* largest limit passed to recent_entries
MaxLimit == 3

\* what the entries logged differ in: the status and the free-text fields
EntryChoices ==
    { [ status |-> "success", fallback_reason |-> Some(<< QUOTE, ",", BS >>),
        error_message |-> None ],
      [ status |-> "error", fallback_reason |-> None,
        error_message |-> Some(<< "e", LF, QUOTE >>) ],
      [ status |-> "budget_exceeded", fallback_reason |-> None,
        error_message |-> Some(<< BS, "n" >>) ] }

\* the audit file found at start: none, an empty one, and one with the line of
\* an earlier entry, an empty line and a line that was cut short
PreexistingFiles ==
    { [ exists |-> FALSE, text |-> << >> ],
      [ exists |-> TRUE, text |-> << >> ],
      [ exists |-> TRUE,
        text |-> model_dump_json(AuditEntry(OldRequestId, "success", None, None))
                 \o << LF, LF, "{", OldRequestId, LF >> ] }

\* the router and the budget store after construction, serving no request
RouterAndStoreIdle ==
    /\ clock = 0
    /\ provider_priority = << "anthropic", "openai", "azure_openai", "gemini" >>
    /\ available = Provider
    /\ workers = {"t1"}
    /\ failures = [p \in Provider |-> 0]
    /\ tripped_at = [p \in Provider |-> NoTime]
    /\ half_open = [p \in Provider |-> FALSE]
    /\ opened_at = [p \in Provider |-> NoTime]
    /\ pc = [t \in Tasks |-> "idle"]
    /\ priority = [t \in Tasks |-> <<>>]
    /\ idx = [t \in Tasks |-> 1]
    /\ provider_errors = [t \in Tasks |-> EmptyDict]
    /\ fallback_triggered = [t \in Tasks |-> FALSE]
    /\ fallback_reason = [t \in Tasks |-> NoReason]
    /\ first_tried = [t \in Tasks |-> NoProvider]
    /\ attempted = [t \in Tasks |-> <<>>]
    /\ result = [t \in Tasks |-> NoResult]
    /\ BudgetStoreInit

\* everything but the audit logger
outside_audit == << workers, router, budget, authn, pii, pipeline, components >>

\* audit_logger.log(entry); has_loop: the caller runs in a task of a running
\* event loop.  The line is appended to the file (created if missing); with
\* a SIEM URL, asyncio.create_task starts the forwarding task, and raises
\* RuntimeError when no event loop is running
log(entry, has_loop) ==
    /\ nlog' = nlog + 1
    /\ log_exists' = TRUE
    /\ log_text' = log_text \o model_dump_json(entry) \o << LF >>
    /\ logged' = Append(logged, entry)
    /\ IF siem_url /\ has_loop
       THEN shipping' = Append(shipping, [ entry |-> entry, state |-> "pending" ])
       ELSE shipping' = shipping
    /\ aret' = [ NoAuditReturn EXCEPT
                     !.op = "log",
                     !.outcome = IF siem_url /\ ~has_loop THEN "RuntimeError"
                                 ELSE "returned" ]
    /\ UNCHANGED << siem_url, preexisting >>

\* audit_logger.log is called with the entry of the next request
Log(c, has_loop) ==
    /\ nlog < MaxLogs
    /\ log(AuditEntry(RequestIds[nlog + 1], c.status, c.fallback_reason, c.error_message),
           has_loop)
    /\ UNCHANGED outside_audit

\* the forwarding task i runs and its POST is answered
ShipPosted(i) ==
    /\ i \in 1..Len(shipping)
    /\ shipping[i].state = "pending"
    /\ shipping' = [shipping EXCEPT ![i].state = "posted"]
    /\ aret' = NoAuditReturn
    /\ UNCHANGED << siem_url, log_exists, log_text, preexisting, logged, nlog >>
    /\ UNCHANGED outside_audit

\* the forwarding task i runs and the collector cannot be reached: the
\* exception is caught in the task
ShipUnreachable(i) ==
    /\ i \in 1..Len(shipping)
    /\ shipping[i].state = "pending"
    /\ shipping' = [shipping EXCEPT ![i].state = "unreachable"]
    /\ aret' = NoAuditReturn
    /\ UNCHANGED << siem_url, log_exists, log_text, preexisting, logged, nlog >>
    /\ UNCHANGED outside_audit

\* the forwarding task i runs and its POST times out after 3 seconds: the
\* exception is caught in the task
ShipTimeout(i) ==
    /\ i \in 1..Len(shipping)
    /\ shipping[i].state = "pending"
    /\ shipping' = [shipping EXCEPT ![i].state = "timeout"]
    /\ aret' = NoAuditReturn
    /\ UNCHANGED << siem_url, log_exists, log_text, preexisting, logged, nlog >>
    /\ UNCHANGED outside_audit

\* audit_logger.recent_entries(limit)
RecentEntries(limit) ==
    /\ aret' = [ op |-> "recent_entries", outcome |-> "returned", limit |-> limit,
                 entries |-> IF ~log_exists THEN << >> ELSE recent_entries(log_text, limit) ]
    /\ UNCHANGED << siem_url, log_exists, log_text, preexisting, logged, shipping, nlog >>
    /\ UNCHANGED outside_audit

AuditInit ==
    /\ RouterAndStoreIdle
    /\ ComponentsIdle
    /\ AuthInit
    /\ RedactorInit
    /\ PipelineIdle
    /\ siem_url \in BOOLEAN
    /\ \E f \in PreexistingFiles :
           /\ log_exists = f.exists
           /\ log_text = f.text
           /\ preexisting = f.text
    /\ logged = << >>
    /\ shipping = << >>
    /\ aret = NoAuditReturn
    /\ nlog = 0

AuditNext ==
    \/ \E c \in EntryChoices, has_loop \in BOOLEAN : Log(c, has_loop)
    \/ \E i \in 1..MaxLogs : ShipPosted(i)
    \/ \E i \in 1..MaxLogs : ShipUnreachable(i)
    \/ \E i \in 1..MaxLogs : ShipTimeout(i)
    \/ \E limit \in 0..MaxLimit : RecentEntries(limit)

AuditSpec == AuditInit /\ [][AuditNext]_vars

\* ------------------------------------------------- claims: audit logger
\* the lines of a text: what lies between its line feeds, the text after the
\* last line feed being a line only when it is not empty
LinesOf(text) ==
    LET pieces == split(text, LF)
    IN  IF pieces[Len(pieces)] = << >> THEN SubSeq(pieces, 1, Len(pieces) - 1) ELSE pieces

\* the lines of the entries logged, in call order
RECURSIVE LinesLogged(_)
LinesLogged(entries) ==
    IF entries = << >> THEN << >>
    ELSE << model_dump_json(Head(entries)) >> \o LinesLogged(Tail(entries))

\* C22: each AuditLogger.log(entry) call appends exactly one JSON-encoded
\* line for that entry at the end of the audit file and leaves all earlier
\* lines unchanged; after any sequence of log calls the file holds, after the
\* lines it held before, one line per call in call order, and each of these
\* lines parses back to the entry of its call.
C22_OneLinePerCall ==
    [][ /\ nlog' = nlog + 1 =>
               LET entry == logged'[Len(logged')]
               IN  /\ Len(LinesOf(log_text')) = Len(LinesOf(log_text)) + 1
                   /\ \A i \in 1..Len(LinesOf(log_text)) :
                          LinesOf(log_text')[i] = LinesOf(log_text)[i]
                   /\ LinesOf(log_text')[Len(LinesOf(log_text'))] = model_dump_json(entry)
                   /\ json_loads(model_dump_json(entry)) = [ ok |-> TRUE, value |-> entry ]
        /\ LinesOf(log_text') = LinesOf(preexisting') \o LinesLogged(logged')
        /\ Len(logged') = nlog' ]_vars

\* two log calls were made, the first with an error message that holds a line
\* feed and a quote, and the file holds their two lines after the earlier ones
C22_Witness ==
    /\ nlog = 2
    /\ preexisting # << >>
    /\ logged[1].error_message = Some(<< "e", LF, QUOTE >>)
    /\ Len(LinesOf(log_text)) = Len(LinesOf(preexisting)) + 2

\* the lines of the audit file that recent_entries looks at: the lines that
\* hold more than white space
FileLines == NonBlank(LinesOf(log_text))

\* the last n of the lines
LastOf(lines, n) == SubSeq(lines, (IF Len(lines) > n THEN Len(lines) - n ELSE 0) + 1, Len(lines))

\* C23: for every limit >= 0, recent_entries(limit) returns at most limit
\* entries: the parsable entries among the last limit lines of the audit
\* file, most recent first, with lines that fail to parse skipped; it returns
\* an empty list when the file does not exist.
C23_LastLimitEntries ==
    aret.op = "recent_entries" =>
        /\ Len(aret.entries) <= aret.limit
        /\ LET last == LastOf(FileLines, aret.limit)
               good == { i \in 1..Len(last) : json_loads(last[i]).ok }
           IN  /\ Len(aret.entries) = Cardinality(good)
               /\ \A i \in good :
                      aret.entries[Cardinality({ j \in good : j >= i })] = json_loads(last[i]).value
        /\ ~log_exists => aret.entries = << >>

\* C24: when a SIEM URL is configured, AuditLogger.log writes the local line
\* first and never fails because of the forwarder: whether the forwarding
\* task cannot be started, the collector is unreachable, or the POST times
\* out, log returns normally to its caller and the local line is present.
C24_LogNeverFails ==
    /\ (siem_url /\ aret.op = "log") =>
           /\ aret.outcome = "returned"
           /\ Len(shipping) = nlog
           /\ nlog >= 1 /\ Len(logged) = nlog
           /\ LinesOf(log_text)[Len(LinesOf(log_text))] = model_dump_json(logged[nlog])
    /\ \A i \in 1..Len(shipping) :
           /\ shipping[i].entry = logged[i]
           /\ shipping[i].state \in {"pending", "posted", "unreachable", "timeout"}

\* ========================================================= authentication
\* AuthSpec is the specification of the API-key check (auth.py): requests
\* arrive with or without an X-API-Key header and require_api_key is called
\* for each.

\* requests in one run
MaxAuthCalls == 2

\* X-API-Key header values: no header, an empty one, the registered keys, and
\* keys that are not registered (one differs from a registered key in case,
\* one is the name of a team)
ApiKeys ==
    { None, Some("") }
    \cup { Some(k) : k \in DOMAIN TEAM_API_KEYS }
    \cup { Some("sk-invalid-key"), Some("SK-GATEWAY-FINANCE-001"), Some("finance-team") }

\* the sequences of at most n header values
RECURSIVE KeySeqs(_)
KeySeqs(n) ==
    IF n = 0 THEN { << >> }
    ELSE KeySeqs(n - 1) \cup { Append(q, k) : q \in KeySeqs(n - 1), k \in ApiKeys }

\* everything but the API-key check
outside_authn == << workers, router, budget, audit, pii, pipeline, components >>

\* the next request arrives and FastAPI calls require_api_key with its header
RequireApiKey ==
    /\ auth_in # << >>
    /\ LET api_key == Head(auth_in)
           r == require_api_key(api_key)
       IN  auth_out' = Append(auth_out, [ api_key |-> api_key,
                                          status_code |-> r.status_code,
                                          team_id |-> r.team_id ])
    /\ auth_in' = Tail(auth_in)
    /\ UNCHANGED outside_authn

AuthSpecInit ==
    /\ RouterAndStoreIdle
    /\ ComponentsIdle
    /\ AuditLoggerInit
    /\ RedactorInit
    /\ PipelineIdle
    /\ auth_in \in KeySeqs(MaxAuthCalls)
    /\ auth_out = << >>

AuthNext == RequireApiKey

AuthSpec == AuthSpecInit /\ [][AuthNext]_vars

MaxChunks == 4
\* redact calls in one run: on a text, and on the output of the call before
MaxRedactCalls == 2

\* the pieces: "555-", "1234", "12-", "1.", "1", "a@b", ".co" and " "
Chunks ==
    { << "5", "5", "5", "-" >>, << "1", "2", "3", "4" >>, << "1", "2", "-" >>,
      << "1", "." >>, << "1" >>, << "a", "@", "b" >>, << ".", "c", "o" >>, << " " >> }

\* the texts of at most n pieces
RECURSIVE Texts(_)
Texts(n) ==
    IF n = 0 THEN { << >> }
    ELSE Texts(n - 1) \cup { t \o c : t \in Texts(n - 1), c \in Chunks }

\* everything but the redactor
outside_pii == << workers, router, budget, audit, authn, pipeline, components >>

\* pii_redactor.redact is called: first on the text, then on the
\* redacted_text of the call before
Redact ==
    /\ pii_calls < MaxRedactCalls
    /\ pii_calls' = pii_calls + 1
    /\ pii_text' = IF pii_calls = 0 THEN pii_text ELSE pii_out.redacted_text
    /\ pii_out' = redact(pii_enabled, pii_text')
    /\ UNCHANGED pii_enabled
    /\ UNCHANGED outside_pii

RedactInit ==
    /\ RouterAndStoreIdle
    /\ ComponentsIdle
    /\ AuditLoggerInit
    /\ AuthInit
    /\ PipelineIdle
    /\ pii_enabled \in BOOLEAN
    /\ pii_text \in Texts(MaxChunks)
    /\ pii_out = NoRedaction
    /\ pii_calls = 0

RedactNext == Redact

RedactSpec == RedactInit /\ [][RedactNext]_vars

PipelineWorkers == { {"t1"}, {"t1", "t2"} }
\* X-API-Key header values of the requests: none, a key that is not
\* registered, and the key of the engineering team
PipelineKeys == { None, Some("sk-invalid-key"), Some("sk-gateway-engineering-001") }
\* message bodies of the requests: a word and an e-mail address
PipelinePrompts == { << "h", "i", " ", "a", "@", "b", ".", "c", "o" >> }
\* completion bodies the providers answer with
Completions == { << "o", "k" >> }
\* the cost estimated for a request before its provider call, and the cost
\* computed from the tokens that the provider reports
Estimates == { MicroUSD }
ActualCosts == { MicroUSD }
\* limits of the engineering team: the defaults, or a daily limit of a
\* millionth of a dollar set by an administrator before the first request
PipelineBudgets ==
    { EmptyDict,
      set_team_budget(EmptyDict, "engineering-team", MicroUSD, 100 * USD) }

\* the message of an exception of the adapter of provider p that quotes the
\* prompt sent to it, as a provider's error response does
EchoError(p, sent) == << p, " rejected: " >> \o sent

\* messages of the exceptions that adapter.complete of provider p can raise
\* for a request whose prompt was sent as text sent
CompleteErrors(p, sent) == AdapterErrors(p) \cup { EchoError(p, sent) }

\* the text of the f-string that route_request builds as fallback_reason, or
\* None
ReasonText(r) ==
    IF r = NoReason THEN None ELSE Some(<< r[1], r[2], r[3] >> \o r[4])

\* repr of a list of str
RECURSIVE ListItems(_)
ListItems(names) ==
    IF names = << >> THEN << >>
    ELSE << "'", Head(names), "'" >>
         \o (IF Len(names) > 1 THEN << ", " >> ELSE << >>)
         \o ListItems(Tail(names))
ListRepr(names) == << "[" >> \o ListItems(names) \o << "]" >>

\* str(e) of the GatewayError of route_request: the providers of the error
\* dict, in the order they were gone through
GatewayErrorMessage(order, errors) ==
    LET Tried(q) == q \in DOMAIN errors
    IN  << "All providers failed after trying: " >> \o ListRepr(SelectSeq(order, Tried))

\* the message of the audit entry of a request that ended in an exception of
\* the pipeline itself
InternalErrorMessage == << "Internal error" >>

\* variant: a request whose budget check fails is routed all the same
AfterCheck_route_anyway(allowed) == "route"

\* the stage that follows the budget check: routing, or at once the audit
\* entry when the check denies the request
AfterCheck(allowed) == IF allowed THEN "route" ELSE "audit"

\* variant: a request that ends in an exception of the pipeline is answered
\* without an audit entry
AfterInternalError_unaudited(stage) == "done"

\* the stage that follows an exception raised in a stage: the audit entry
AfterInternalError(stage) == "audit"

\* the call made for request i, or its outcome, is noted
Noted(i, events) == trace' = [trace EXCEPT ![i] = @ \o events]

\* the locals of task t become c
Locals(t, c) == ctx' = [ctx EXCEPT ![t] = c]

\* task t goes on to a stage
Goto(t, stage) == ppc' = [ppc EXCEPT ![t] = stage]

store_outside == << teams, reconfigure, last_day, date_today, lock, bpc, req, ret, nreq,
                    committed >>

\* stages 1 and 2: a request arrives at a task that serves none;
\* require_api_key resolves the team or rejects the request, which then ends
\* unaudited.  Where the server has several tasks, each serves one request,
\* so that their requests are under way together
Receive(t, api_key, prompt) ==
    /\ t \in workers
    /\ ppc[t] = "idle" \/ (ppc[t] = "done" /\ workers = {t})
    /\ narrived < MaxPipelineRequests
    /\ LET r == require_api_key(api_key)
           i == narrived + 1
       IN  IF r.status_code # NoException
           THEN /\ Goto(t, "done")
                /\ UNCHANGED << ctx, trace, content, narrived >>
           ELSE /\ narrived' = i
                /\ Goto(t, "redact")
                /\ Locals(t, [ NoContext EXCEPT !.request = i, !.team_id = r.team_id[1],
                                                !.prompt = prompt ])
                /\ content' = [content EXCEPT ![i].prompt = prompt]
                /\ UNCHANGED trace
    /\ UNCHANGED << workers, router, budget, audit, authn, pii, components >>

\* what pii_redactor.redact returns for the message bodies of the requests
Redacted == [ enabled \in BOOLEAN |-> [ text \in PipelinePrompts |-> redact(enabled, text) ] ]

\* stage 3: the message body is redacted
RedactStage(t) ==
    /\ ppc[t] = "redact"
    /\ LET i == ctx[t].request
           r == Redacted[pii_enabled][ctx[t].prompt]
       IN  /\ Locals(t, [ ctx[t] EXCEPT !.sent = r.redacted_text ])
           /\ content' = [content EXCEPT ![i].sent = r.redacted_text]
           /\ Noted(i, << "redact" >>)
    /\ Goto(t, "estimate")
    /\ UNCHANGED << workers, router, budget, audit, authn, pii, components, narrived >>

\* stage 4: the cost is estimated
EstimateStage(t, c) ==
    /\ ppc[t] = "estimate"
    /\ Locals(t, [ ctx[t] EXCEPT !.estimated_cost = c ])
    /\ Noted(ctx[t].request, << "estimate" >>)
    /\ Goto(t, "check")
    /\ UNCHANGED << workers, router, budget, audit, authn, pii, content, narrived >>
    /\ UNCHANGED components

\* stage 5: check_budget; a denied request goes to its audit entry
CheckStage(t) ==
    /\ ppc[t] = "check"
    /\ Acquirable(lock)
    /\ LET c == ctx[t]
           b == get_budget(budgets, daily_usage, monthly_usage, c.team_id,
                           date_today, date_today)
           r == check_budget(b, c.team_id, c.estimated_cost)
       IN  /\ Goto(t, AfterCheck(r.allowed))
           /\ IF r.allowed
              THEN /\ Noted(c.request, << "check_budget" >>)
                   /\ UNCHANGED ctx
              ELSE /\ Noted(c.request, << "check_budget", "denied" >>)
                   /\ Locals(t, [ c EXCEPT !.status = "budget_exceeded",
                                           !.error_message = Some(r.reason) ])
    /\ UNCHANGED << workers, router, budget, audit, authn, pii, content, narrived >>
    /\ UNCHANGED components

\* stage 6: route_request is called
RouteStage(t, preferred) ==
    /\ ppc[t] = "route"
    /\ StartStep(t, preferred)
    /\ Noted(ctx[t].request, << "route_request" >>)
    /\ Goto(t, "routing")
    /\ UNCHANGED << budget, audit, authn, pii, components, ctx, content, narrived >>

\* stage 6: route_request goes through one provider of its list, and calls
\* adapter.complete when the provider is eligible
Attempt(t) ==
    /\ ppc[t] = "routing"
    /\ ConsiderStep(t)
    /\ IF pc'[t] = "calling"
       THEN Noted(ctx[t].request, << "complete" >>)
       ELSE UNCHANGED trace
    /\ UNCHANGED << budget, audit, authn, pii, components, ppc, ctx, content, narrived >>

\* stage 6: adapter.complete returns a completion and route_request returns
Completed(t, completion) ==
    /\ ppc[t] = "routing"
    /\ CompleteOkStep(t)
    /\ Noted(ctx[t].request, << "response" >>)
    /\ content' = [content EXCEPT ![ctx[t].request].completion = completion]
    /\ Locals(t, [ ctx[t] EXCEPT !.fallback_reason = ReasonText(fallback_reason[t]) ])
    /\ Goto(t, "record")
    /\ UNCHANGED << budget, audit, authn, pii, components, narrived >>

\* stage 6: adapter.complete raises
Failed(t, e) ==
    /\ ppc[t] = "routing"
    /\ pc[t] = "calling"
    /\ e \in CompleteErrors(Current(t), ctx[t].sent)
    /\ CompleteFailStep(t, e)
    /\ Noted(ctx[t].request, << "exception" >>)
    /\ UNCHANGED << budget, audit, authn, pii, components, ppc, ctx, content, narrived >>

\* stage 6: route_request raises GatewayError; the request goes to its audit
\* entry
AllFailed(t) ==
    /\ ppc[t] = "routing"
    /\ RaiseGatewayErrorStep(t)
    /\ Noted(ctx[t].request, << "GatewayError" >>)
    /\ Locals(t, [ ctx[t] EXCEPT
                       !.status = "error",
                       !.error_message =
                           Some(GatewayErrorMessage(priority[t], provider_errors[t])) ])
    /\ Goto(t, "audit")
    /\ UNCHANGED << budget, audit, authn, pii, components, content, narrived >>

\* stage 7: record_usage with the actual cost
RecordStage(t, actual_cost) ==
    /\ ppc[t] = "record"
    /\ actual_cost <= ctx[t].estimated_cost
    /\ Acquirable(lock)
    /\ LET u == record_usage(daily_usage, monthly_usage, ctx[t].team_id, actual_cost,
                             date_today, date_today)
       IN  /\ daily_usage' = u.daily_usage
           /\ monthly_usage' = u.monthly_usage
    /\ Noted(ctx[t].request, << "record_usage" >>)
    /\ Locals(t, [ ctx[t] EXCEPT !.status = "success" ])
    /\ Goto(t, "audit")
    /\ UNCHANGED components
    /\ UNCHANGED << workers, router, budgets, store_outside, audit, authn, pii, content,
                    narrived >>

\* a stage between authentication and the audit entry raises an exception of
\* its own; the request goes to its audit entry
InternalError(t) ==
    /\ ppc[t] \in {"redact", "estimate", "check", "record"}
    /\ Noted(ctx[t].request, << "internal_error" >>)
    /\ Locals(t, [ ctx[t] EXCEPT !.status = "error", !.fallback_reason = None,
                                 !.error_message = Some(InternalErrorMessage) ])
    /\ Goto(t, AfterInternalError(ppc[t]))
    /\ UNCHANGED << workers, router, budget, audit, authn, pii, content, narrived >>
    /\ UNCHANGED components

\* stage 8: the audit entry of the request is logged, the response is sent
\* and the handler returns: its locals and what route_request gave it are gone
AuditStage(t) ==
    /\ ppc[t] = "audit"
    /\ LET c == ctx[t]
       IN  \E has_loop \in BOOLEAN :
               log(AuditEntry(RequestIds[c.request], c.status, c.fallback_reason,
                              c.error_message), has_loop)
    /\ Noted(ctx[t].request, << "log" >>)
    /\ Locals(t, NoContext)
    /\ Goto(t, "done")
    /\ pc' = [pc EXCEPT ![t] = "idle"]
    /\ result' = [result EXCEPT ![t] = NoResult]
    /\ UNCHANGED << clock, config, breaker, locals >>
    /\ UNCHANGED << budget, authn, pii, components, content, narrived >>

PipelineInit ==
    /\ clock = 0
    /\ provider_priority = << "anthropic", "openai" >>
    /\ available = {"anthropic", "openai"}
    /\ workers \in PipelineWorkers
    /\ failures = [p \in Provider |-> 0]
    /\ tripped_at = [p \in Provider |-> NoTime]
    /\ half_open = [p \in Provider |-> FALSE]
    /\ opened_at = [p \in Provider |-> NoTime]
    /\ pc = [t \in Tasks |-> "idle"]
    /\ priority = [t \in Tasks |-> <<>>]
    /\ idx = [t \in Tasks |-> 1]
    /\ provider_errors = [t \in Tasks |-> EmptyDict]
    /\ fallback_triggered = [t \in Tasks |-> FALSE]
    /\ fallback_reason = [t \in Tasks |-> NoReason]
    /\ first_tried = [t \in Tasks |-> NoProvider]
    /\ attempted = [t \in Tasks |-> <<>>]
    /\ result = [t \in Tasks |-> NoResult]
    /\ teams = Teams
    /\ reconfigure = FALSE
    /\ last_day = Len(Calendar)
    /\ date_today = 1
    /\ lock = NoTask
    /\ budgets \in PipelineBudgets
    /\ daily_usage = EmptyDict
    /\ monthly_usage = EmptyDict
    /\ bpc = [t \in Tasks |-> "idle"]
    /\ req = [t \in Tasks |-> NoRequest]
    /\ ret = NoReturn
    /\ nreq = 0
    /\ committed = [tm \in Teams |-> [d \in 1..Len(Calendar) |->
                                          [ cost |-> 0, n |-> 0, mcost |-> 0 ]]]
    /\ GatewayInit

\* the stages after authentication that task t can go through
Serve(t) ==
    \/ RedactStage(t)
    \/ \E c \in Estimates : EstimateStage(t, c)
    \/ CheckStage(t)
    \/ RouteStage(t, NoProvider)
    \/ Attempt(t)
    \/ \E completion \in Completions : Completed(t, completion)
    \/ \E e \in UNION { CompleteErrors(p, ctx[t].sent) : p \in Provider } : Failed(t, e)
    \/ AllFailed(t)
    \/ \E c \in ActualCosts : RecordStage(t, c)
    \/ AuditStage(t)

PipelineNext ==
    \/ \E t \in Tasks, api_key \in PipelineKeys, prompt \in PipelinePrompts :
           Receive(t, api_key, prompt)
    \/ \E t \in Tasks : RedactStage(t)
    \/ \E t \in Tasks, c \in Estimates : EstimateStage(t, c)
    \/ \E t \in Tasks : CheckStage(t)
    \/ \E t \in Tasks : RouteStage(t, NoProvider)
    \/ \E t \in Tasks : Attempt(t)
    \/ \E t \in Tasks, completion \in Completions : Completed(t, completion)
    \/ \E t \in Tasks :
           \E e \in UNION { CompleteErrors(p, ctx[t].sent) : p \in Provider } : Failed(t, e)
    \/ \E t \in Tasks : AllFailed(t)
    \/ \E t \in Tasks, c \in ActualCosts : RecordStage(t, c)
    \/ \E t \in Tasks : InternalError(t)
    \/ \E t \in Tasks : AuditStage(t)

PipelineSpec == PipelineInit /\ [][PipelineNext]_vars

\* the server does not stop while a task has a stage to go through: a task
\* that is ready is run, and a provider call returns or raises within its
\* timeout
PipelineLive == PipelineSpec /\ WF_vars(\E t \in Tasks : Serve(t))

\* ------------------------------------------------------- claims: pipeline
\* how often event e is in the trace tr
Count(tr, e) == Cardinality({ k \in 1..Len(tr) : tr[k] = e })

\* every event b of the trace tr has an event a before it
Precedes(tr, a, b) ==
    \A k \in 1..Len(tr) : tr[k] = b => \E j \in 1..(k - 1) : tr[j] = a

\* the entries of request i that the audit file with this text holds
EntriesIn(text, i) ==
    LET OfRequest(entry) == entry.request_id = RequestIds[i]
    IN  SelectSeq(Parsed(LinesOf(text)), OfRequest)

\* request i has arrived and its handler has returned
Served(i) ==
    /\ i <= narrived
    /\ \A t \in Tasks : ctx[t].request = i => ppc[t] = "done"

\* the team of the requests
EngineeringTeam == TEAM_API_KEYS["sk-gateway-engineering-001"]

\* the requests for which record_usage was called
Recorded == { i \in 1..narrived : Count(trace[i], "record_usage") > 0 }

C27_DeniedRequest ==
    [][ \A i \in 1..narrived' :
            Count(trace'[i], "denied") > 0 =>
                /\ Count(trace'[i], "route_request") = 0
                /\ Count(trace'[i], "complete") = 0
                /\ Count(trace'[i], "record_usage") = 0
                /\ trace'[i] # trace[i] => UNCHANGED << breaker, store >>
                /\ Len(EntriesIn(log_text', i)) <= 1
                /\ Served(i)' =>
                       /\ Len(EntriesIn(log_text', i)) = 1
                       /\ EntriesIn(log_text', i)[1].status = "budget_exceeded" ]_vars

\* the second request was denied after the usage of the first one was
\* recorded, and was served
C27_Witness ==
    /\ narrived = 2
    /\ Count(trace[1], "record_usage") = 1
    /\ trace[2] = << "redact", "estimate", "check_budget", "denied", "log" >>
    /\ Served(2)
    /\ EntriesIn(log_text, 2)[1].status = "budget_exceeded"

\* the status that the path of a served request, as its trace tells it, ends in
PathStatus(tr) ==
    IF Count(tr, "denied") > 0 THEN "budget_exceeded"
    ELSE IF Count(tr, "GatewayError") > 0 \/ Count(tr, "internal_error") > 0 THEN "error"
    ELSE "success"

\* the stages that a request goes through at most once
OnceStages == { "redact", "estimate", "check_budget", "route_request", "record_usage" }

Contains(text, body) ==
    \E k \in 0..(Len(text) - Len(body)) : SubSeq(text, k + 1, k + Len(body)) = body

\* the bodies of request i: its prompt as received and as sent, and its
\* completion
Bodies(i) == { content[i].prompt, content[i].sent, content[i].completion } \ { << >> }

\* C25: the prompt bodies and the completion body of a request never appear
\* in any persisted audit entry, on any path (success, budget_exceeded,
\* error): the entry carries metadata only, and the free-text fields
\* fallback_reason and error_message never carry request or completion
\* content.
C25_NoContentInAudit ==
    \A i \in 1..narrived : \A body \in Bodies(i) :
        \A k \in 1..Len(LinesOf(log_text)) : ~Contains(LinesOf(log_text)[k], body)


\* ------------------------------------------------- the cost estimator alone
\* largest token count passed to estimate_cost
MaxTokens == 3
TokenCounts == 0..MaxTokens
\* the providers and models that callers name: those of the cost table, and a
\* provider and a model that the table does not have
EstimateProviders == DOMAIN COST_PER_1K_TOKENS \cup {"mistral"}
EstimateModels ==
    UNION { DOMAIN COST_PER_1K_TOKENS[q] : q \in DOMAIN COST_PER_1K_TOKENS }
        \cup {"mistral-large"}

\* everything but the estimator
outside_estimator ==
    << workers, router, budget, audit, authn, pii, pipeline, gemini, race, failed_at,
       listing >>

\* estimate_cost(provider, model, prompt_tokens, completion_tokens) returns
EstimateCost ==
    /\ est_out = None
    /\ est_out' = Some(estimate_cost(est_in.provider, est_in.model, est_in.prompt_tokens,
                                     est_in.completion_tokens))
    /\ UNCHANGED est_in
    /\ UNCHANGED outside_estimator

CostInit ==
    /\ RouterAndStoreIdle
    /\ AuditLoggerInit
    /\ AuthInit
    /\ RedactorInit
    /\ PipelineIdle
    /\ GeminiIdle
    /\ RaceIdle
    /\ NeverFailed
    /\ ListingIdle
    /\ est_in \in [ provider : EstimateProviders, model : EstimateModels,
                    prompt_tokens : TokenCounts, completion_tokens : TokenCounts ]
    /\ est_out = None

CostNext == EstimateCost

CostSpec == CostInit /\ [][CostNext]_vars

\* ------------------------------------------------ claims: cost estimator
\* the row of the cost table that the claim names for a provider of the table:
\* the row of the model, or the provider's "default" row
RowOf(provider, model) ==
    IF model \in DOMAIN COST_PER_1K_TOKENS[provider]
    THEN COST_PER_1K_TOKENS[provider][model]
    ELSE COST_PER_1K_TOKENS[provider]["default"]

\* C31: for a provider of the cost table, estimate_cost(provider, model, p, c)
\* is p/1000 * input_rate + c/1000 * output_rate with the rates of the row of
\* that provider and model, or of the provider's "default" row when the model
\* is unknown; the result is positive for positive token counts and strictly
\* larger for any larger p together with a larger c.
C31_CostIsTokensTimesRates ==
    est_out # None =>
        LET provider == est_in.provider
            model == est_in.model
            p == est_in.prompt_tokens
            c == est_in.completion_tokens
        IN  /\ provider \in DOMAIN COST_PER_1K_TOKENS =>
                   est_out = Some(p * RowOf(provider, model).input
                                  + c * RowOf(provider, model).output)
            /\ (p > 0 /\ c > 0) => est_out[1] > 0
            /\ \A p2 \in TokenCounts, c2 \in TokenCounts :
                   (p2 > p /\ c2 > c) => estimate_cost(provider, model, p2, c2) > est_out[1]

\* an estimate was made for a model that the provider's rows do not have, with
\* positive token counts that can still grow
C31_Witness ==
    /\ est_out # None
    /\ est_in.provider = "anthropic"
    /\ est_in.model = "gpt-4o"
    /\ est_in.prompt_tokens > 0 /\ est_in.prompt_tokens < MaxTokens
    /\ est_in.completion_tokens > 0 /\ est_in.completion_tokens < MaxTokens
    /\ est_out = Some(est_in.prompt_tokens * 3000 + est_in.completion_tokens * 15000)

\* C32: the cost estimated for a provider that the cost table does not have is
\* at least the cost of the same token counts for every provider and model of
\* the table.
C32_UnknownProviderChargedMost ==
    (est_out # None /\ est_in.provider \notin DOMAIN COST_PER_1K_TOKENS) =>
        \A q \in DOMAIN COST_PER_1K_TOKENS : \A m \in DOMAIN COST_PER_1K_TOKENS[q] :
            est_out[1] >= estimate_cost(q, m, est_in.prompt_tokens,
                                        est_in.completion_tokens)


\* ------------------------------------------------- the Gemini adapter alone
\* longest message content and response text, in characters
MaxTextLen == 3
\* messages of one request
MaxMessages == 2
\* the characters of the texts: a letter and a space
GeminiChars == {"a", " "}
GeminiTexts == UNION { [1..k -> GeminiChars] : k \in 0..MaxTextLen }
\* the message lists: Message(role, content)
GeminiMessages ==
    UNION { [1..k -> [ role : {"system", "user"}, content : GeminiTexts ]] :
              k \in 0..MaxMessages }

\* everything but the Gemini adapter
outside_gemini ==
    << workers, router, budget, audit, authn, pii, pipeline, estimator, race, failed_at,
       listing >>

\* GeminiAdapter.complete returns: the vendor answered with the text
GeminiComplete ==
    /\ gem_out = None
    /\ gem_out' = Some(gemini_complete(gem_in.messages, gem_in.text))
    /\ UNCHANGED gem_in
    /\ UNCHANGED outside_gemini

GeminiInit ==
    /\ RouterAndStoreIdle
    /\ AuditLoggerInit
    /\ AuthInit
    /\ RedactorInit
    /\ PipelineIdle
    /\ EstimatorIdle
    /\ RaceIdle
    /\ NeverFailed
    /\ ListingIdle
    /\ gem_in \in [ messages : GeminiMessages, text : GeminiTexts ]
    /\ gem_out = None

GeminiNext == GeminiComplete

GeminiSpec == GeminiInit /\ [][GeminiNext]_vars

\* ------------------------------------------------ claims: Gemini adapter
\* ceil(1.3 * n) for a number n >= 0 of words
Ceil13(n) == IF (13 * n) % 10 = 0 THEN (13 * n) \div 10 ELSE (13 * n) \div 10 + 1

\* C33: the Gemini adapter reports prompt_tokens = ceil(1.3 * n_in) and
\* completion_tokens = ceil(1.3 * n_out), n_in and n_out being the numbers of
\* whitespace-separated words of the input messages joined by spaces and of
\* the output text.
C33_TokensAreCeil ==
    gem_out # None =>
        /\ gem_out[1].prompt_tokens = Ceil13(WordCount(join(Contents(gem_in.messages))))
        /\ gem_out[1].completion_tokens = Ceil13(WordCount(gem_in.text))


\* ------------------------------------------- claims: breaker state, one call
\* ------------------------------------------- at a time
\* an is_open(p) query of this step finds the cooldown of p elapsed and resets
\* the breaker of p
ResetStep(p) ==
    /\ tripped_at[p] # NoTime
    /\ clock - tripped_at[p] > COOLDOWN_SECONDS
    /\ \/ Status
       \/ \E t \in Tasks : Consider(t) /\ Current(t) = p /\ p \in available

\* C35: with record_failure, record_success and is_open executed one at a
\* time, tripped_at[p] is set exactly when the failure counter of p is at
\* least FAILURE_THRESHOLD, and the counter is 0 right after a success on p
\* and right after a reset of p by is_open.
C35_TrippedIffAtThreshold ==
    /\ [](\A p \in Provider :
              (tripped_at[p] # NoTime) <=> (failures[p] >= FAILURE_THRESHOLD))
    /\ [][\A p \in Provider :
              ((\E t \in Tasks : OkStep(t, p)) \/ ResetStep(p)) => failures'[p] = 0]_vars

\* the breaker of a provider was reset by is_open after its cooldown, while
\* the breaker of another provider is tripped
C35_Witness ==
    \E p \in Provider, q \in Provider :
        /\ half_open[p] /\ failures[p] = 0 /\ tripped_at[p] = NoTime
        /\ failures[q] >= FAILURE_THRESHOLD /\ tripped_at[q] # NoTime


\* ------------------------------------------- the circuit breaker under threads
\* route_request is a plain function and ProviderCircuitBreaker takes no lock:
\* calls served by different threads go through the statements of is_open,
\* record_success and record_failure one read or write at a time, in any
\* interleaving.  Every call works on one provider.
\* route_request calls in one run
MaxRaceRequests == 5
\* the threads that serve the calls and the provider they work on
RaceThreads == {"t1", "t2"}
RaceProviders == {"anthropic"}

\* everything that the breaker calls leave alone, but the breaker's dicts
race_frame ==
    << clock, config, half_open, opened_at, pc, locals, result, budget, audit, authn, pii,
       pipeline, estimator, gemini, failed_at, listing >>

\* the statement thread t goes to, with the locals l
RaceGoto(t, l, position) ==
    /\ rpc' = [rpc EXCEPT ![t] = position]
    /\ rloc' = [rloc EXCEPT ![t] = l]

\* route_request reaches provider p and calls is_open(p):
\* "tripped = self._tripped_at[provider]", "if tripped is None: return False"
IsOpenRead(t, p) ==
    /\ t \in RaceThreads
    /\ rpc[t] = "idle"
    /\ recorded.requests < MaxRaceRequests
    /\ recorded' = [recorded EXCEPT !.requests = @ + 1]
    /\ RaceGoto(t, [NoLocals EXCEPT !.provider = p, !.tripped = tripped_at[p]],
                IF tripped_at[p] = NoTime THEN "calling" ELSE "compare")
    /\ UNCHANGED << failures, tripped_at, race_frame >>

\* "if datetime.utcnow() - tripped > timedelta(seconds=COOLDOWN_SECONDS)",
\* and "return True" when it is not: the provider is skipped
IsOpenCompare(t) ==
    /\ rpc[t] = "compare"
    /\ IF clock - rloc[t].tripped > COOLDOWN_SECONDS
       THEN RaceGoto(t, rloc[t], "reset_failures")
       ELSE RaceGoto(t, NoLocals, "idle")
    /\ UNCHANGED << failures, tripped_at, recorded, race_frame >>

\* is_open: "self._failures[provider] = 0"
IsOpenResetFailures(t) ==
    /\ rpc[t] = "reset_failures"
    /\ failures' = [failures EXCEPT ![rloc[t].provider] = 0]
    /\ recorded' = [recorded EXCEPT !.failures[rloc[t].provider] = 0]
    /\ RaceGoto(t, rloc[t], "reset_tripped")
    /\ UNCHANGED << tripped_at, race_frame >>

\* is_open: "self._tripped_at[provider] = None", "return False"
IsOpenResetTripped(t) ==
    /\ rpc[t] = "reset_tripped"
    /\ tripped_at' = [tripped_at EXCEPT ![rloc[t].provider] = NoTime]
    /\ RaceGoto(t, rloc[t], "calling")
    /\ UNCHANGED << failures, recorded, race_frame >>

\* adapter.complete returned; record_success: "self._failures[provider] = 0"
SuccessResetFailures(t) ==
    /\ rpc[t] = "calling"
    /\ failures' = [failures EXCEPT ![rloc[t].provider] = 0]
    /\ recorded' = [recorded EXCEPT !.failures[rloc[t].provider] = 0]
    /\ RaceGoto(t, rloc[t], "success_tripped")
    /\ UNCHANGED << tripped_at, race_frame >>

\* record_success: "self._tripped_at[provider] = None"
SuccessResetTripped(t) ==
    /\ rpc[t] = "success_tripped"
    /\ tripped_at' = [tripped_at EXCEPT ![rloc[t].provider] = NoTime]
    /\ RaceGoto(t, NoLocals, "idle")
    /\ UNCHANGED << failures, recorded, race_frame >>

\* adapter.complete raised; record_failure, "self._failures[provider] += 1":
\* the counter is read
FailureLoad(t) ==
    /\ rpc[t] = "calling"
    /\ RaceGoto(t, [rloc[t] EXCEPT !.failures = failures[rloc[t].provider]], "store")
    /\ UNCHANGED << failures, tripped_at, recorded, race_frame >>

\* "self._failures[provider] += 1": the value read plus 1 is written
FailureStore(t) ==
    /\ rpc[t] = "store"
    /\ failures' = [failures EXCEPT ![rloc[t].provider] = rloc[t].failures + 1]
    /\ recorded' = [recorded EXCEPT !.failures[rloc[t].provider] = @ + 1]
    /\ RaceGoto(t, rloc[t], "check")
    /\ UNCHANGED << tripped_at, race_frame >>

\* "if self._failures[provider] >= self.FAILURE_THRESHOLD"
FailureCheck(t) ==
    /\ rpc[t] = "check"
    /\ IF failures[rloc[t].provider] >= FAILURE_THRESHOLD
       THEN RaceGoto(t, rloc[t], "trip")
       ELSE RaceGoto(t, NoLocals, "idle")
    /\ UNCHANGED << failures, tripped_at, recorded, race_frame >>

\* "self._tripped_at[provider] = datetime.utcnow()"
FailureTrip(t) ==
    /\ rpc[t] = "trip"
    /\ tripped_at' = [tripped_at EXCEPT ![rloc[t].provider] = clock]
    /\ RaceGoto(t, NoLocals, "idle")
    /\ UNCHANGED << failures, recorded, race_frame >>

RaceInit ==
    /\ RouterAndStoreIdle
    /\ AuditLoggerInit
    /\ AuthInit
    /\ RedactorInit
    /\ PipelineIdle
    /\ ComponentsIdle

RaceNext ==
    \/ \E d \in TickSteps : Tick(d)
    \/ \E t \in Tasks, p \in RaceProviders : IsOpenRead(t, p)
    \/ \E t \in Tasks : IsOpenCompare(t)
    \/ \E t \in Tasks : IsOpenResetFailures(t)
    \/ \E t \in Tasks : IsOpenResetTripped(t)
    \/ \E t \in Tasks : SuccessResetFailures(t)
    \/ \E t \in Tasks : SuccessResetTripped(t)
    \/ \E t \in Tasks : FailureLoad(t)
    \/ \E t \in Tasks : FailureStore(t)
    \/ \E t \in Tasks : FailureCheck(t)
    \/ \E t \in Tasks : FailureTrip(t)

RaceSpec == RaceInit /\ [][RaceNext]_vars

\* ------------------------------------- claims: circuit breaker under threads
\* the counter of every provider is the number of failures recorded since it
\* was last set to 0
NoLostIncrement ==
    \A p \in Provider : failures[p] = recorded.failures[p]

\* a write of the reset of is_open by thread t
ResetWrite(t) == IsOpenResetFailures(t) \/ IsOpenResetTripped(t)

\* an is_open query resets the breaker only while the breaker holds the trip
\* that the query found to be older than the cooldown
ResetOfTheTripRead ==
    \A t \in Tasks : ResetWrite(t) => tripped_at[rloc[t].provider] = rloc[t].tripped

\* C34: with several route_request calls under way, no increment of a
\* provider's failure counter is lost (the counter is the number of failures
\* recorded since the last success or reset), and the reset of an is_open
\* query does not discard the count or the trip of a record_failure that ran
\* after the query read the breaker.
C34_UpdatesSerialized ==
    []NoLostIncrement /\ [][ResetOfTheTripRead]_vars


\* ------------------------------------------------- recovery after the cooldown
\* the router, with the time of the last record_failure call of every provider
\* kept beside the breaker
\* adapter.complete raises one of the exceptions of the adapter: the failure
\* is recorded, at the time the clock shows
RecordedFail(t, e) ==
    /\ pc[t] = "calling"
    /\ e \in AdapterErrors(Current(t))
    /\ CompleteFailStep(t, e)
    /\ failed_at' = [failed_at EXCEPT ![Current(t)] = clock]
    /\ UNCHANGED << budget, audit, authn, pii, pipeline, estimator, gemini, race, listing >>

RecoveryNext ==
    \/ \E d \in TickSteps : Tick(d)
    \/ \E t \in Tasks, preferred \in PreferredChoices : Start(t, preferred)
    \/ \E t \in Tasks : Consider(t)
    \/ \E t \in Tasks : CompleteOk(t)
    \/ \E t \in Tasks, p \in Provider : \E e \in AdapterErrors(p) : RecordedFail(t, e)
    \/ \E t \in Tasks : RaiseGatewayError(t)
    \/ Status

RecoverySpec == Init /\ [][RecoveryNext]_vars

\* ------------------------------------------ claims: recovery after the cooldown
\* more than COOLDOWN_SECONDS have passed since the last record_failure(p), or
\* there was none
CooledDown(p) == failed_at[p] = NoTime \/ clock - failed_at[p] > COOLDOWN_SECONDS

\* C38: once more than COOLDOWN_SECONDS have passed since the last
\* record_failure(p), no is_open(p) query reports the breaker open: the
\* breaker's fields make the query return false, a status call leaves p
\* untripped, and a route_request call that reaches p while p is configured
\* attempts it.
C38_ClosedAfterCooldown ==
    /\ [](\A p \in Provider : CooledDown(p) => ~OpenNow(p))
    /\ [][ /\ Status => \A p \in Provider : CooledDown(p) => tripped_at'[p] = NoTime
           /\ \A t \in Tasks :
                  (Consider(t) /\ Current(t) \in available /\ CooledDown(Current(t))) =>
                      /\ pc'[t] = "calling"
                      /\ attempted'[t] = Append(attempted[t], Current(t))
                      /\ tripped_at'[Current(t)] = NoTime ]_vars

\* a call attempts a provider whose breaker had tripped and whose last failure
\* is more than COOLDOWN_SECONDS old
C38_Witness ==
    \E t \in Tasks :
        /\ pc[t] = "calling"
        /\ half_open[Current(t)]
        /\ failed_at[Current(t)] # NoTime
        /\ clock - failed_at[Current(t)] > COOLDOWN_SECONDS


\* ----------------------------------- claims: month and day totals of the store
\* the sum of what the store holds for a team in the buckets of the days of
\* the month of day d
RECURSIVE DaysOfMonthUsed(_, _, _)
DaysOfMonthUsed(tm, d, k) ==
    IF k = 0 THEN 0
    ELSE DaysOfMonthUsed(tm, d, k - 1)
         + (IF strftime(k) = strftime(d) THEN DailyUsed(tm, k) ELSE 0)

\* C37: whenever no record_usage call is under way, for every team the usage
\* stored for a month is the sum of the usage stored for the days of that
\* month and the request counter of a day is the number of record_usage calls
\* made on that day; and every get_budget result has monthly_used_usd >=
\* daily_used_usd.
C37_MonthIsSumOfDays ==
    /\ lock = NoTask =>
           \A tm \in Teams, d \in 1..Len(Calendar) :
               /\ MonthlyUsed(tm, d) = DaysOfMonthUsed(tm, d, Len(Calendar))
               /\ DailyCount(tm, d) = committed[tm][d].n
    /\ ret.op \in {"get_budget", "check_budget"} =>
           ret.budget.monthly_used_usd >= ret.budget.daily_used_usd


\* ------------------------------------------------- all_teams of the budget store
\* the keys of a dict, as a set
Keys(d) == DOMAIN d

\* everything but the store's lock, the positions of the tasks and the locals
\* of all_teams
listing_frame ==
    << workers, router, teams, reconfigure, last_day, date_today, store, req, nreq,
       committed, audit, authn, pii, pipeline, estimator, gemini, race, failed_at >>

\* all_teams is called by an idle task: "with self._lock", then
\* "all_ids = set(self._budgets.keys()) | set(self._daily_usage.keys())"
AllTeamsEnter(t) ==
    /\ t \in workers
    /\ bpc[t] = "idle"
    /\ Acquirable(lock)
    /\ lock' = t
    /\ all_ids' = Keys(budgets) \cup Keys(daily_usage)
    /\ views' = << >>
    /\ bpc' = [bpc EXCEPT ![t] = "all_teams"]
    /\ ret' = NoReturn
    /\ UNCHANGED listing_frame

\* "[self.get_budget(tid) for tid in all_ids]", one tid: get_budget is called
\* and comes to its "with self._lock".  The lock is a threading.Lock, which
\* the task that holds it cannot take again: the task waits for the lock, and
\* the lock it waits for is held by itself
AllTeamsLookup(t, tid, dm) ==
    /\ bpc[t] = "all_teams"
    /\ tid \in all_ids
    /\ dm \in SecondRead
    /\ IF Acquirable(lock)
       THEN /\ views' = Append(views, get_budget(budgets, daily_usage, monthly_usage, tid,
                                                 date_today, dm))
            /\ all_ids' = all_ids \ {tid}
            /\ UNCHANGED bpc
       ELSE /\ bpc' = [bpc EXCEPT ![t] = "waiting"]
            /\ UNCHANGED << all_ids, views >>
    /\ ret' = NoReturn
    /\ UNCHANGED lock
    /\ UNCHANGED listing_frame

\* the list is complete: the lock is released and all_teams returns
AllTeamsReturn(t) ==
    /\ bpc[t] = "all_teams"
    /\ all_ids = {}
    /\ lock' = NoTask
    /\ bpc' = [bpc EXCEPT ![t] = "idle"]
    /\ ret' = [NoReturn EXCEPT !.task = t, !.op = "all_teams"]
    /\ UNCHANGED << all_ids, views >>
    /\ UNCHANGED listing_frame

ListingNext ==
    \/ BudgetNext
    \/ \E t \in Tasks : AllTeamsEnter(t)
    \/ \E t \in Tasks, tid \in Teams, dm \in 1..Len(Calendar) : AllTeamsLookup(t, tid, dm)
    \/ \E t \in Tasks : AllTeamsReturn(t)

ListingSpec == BudgetInit /\ [][ListingNext]_vars

\* no step that can be taken is put off forever
ListingLive == ListingSpec /\ WF_vars(ListingNext)

\* ------------------------------------------------------ claims: all_teams
\* C36: every all_teams call returns, with one budget view for every team that
\* has limits set or usage recorded; the task never waits forever for the
\* store's lock.
C36_AllTeamsReturns ==
    \A t \in Tasks :
        (bpc[t] = "all_teams") ~> (bpc[t] = "idle" /\ ret.task = t /\ ret.op = "all_teams")

====
